---------------------------- MODULE Spec2Model ----------------------------
(***************************************************************************)
(* Model of src/index.js: the chatbot endpoint POST /api/chat with its     *)
(* text utilities, title matcher, intent router, deterministic renderer,   *)
(* enrollment-link sanitizer and the in-memory session store.              *)
(*                                                                         *)
(* Text.  User messages, titles, localities, ids and URLs are strings and  *)
(* are processed character by character.  Strings of a module are ASCII,   *)
(* so the accented letters of the source are written with stand-ins:       *)
(*      #  a-acute    $  e-acute    %  i-acute    @  o-acute               *)
(*      ^  u-acute    ~  n-tilde                                           *)
(* HTML produced by the server or by the generation service is a sequence  *)
(* of tokens (records [k, s, u, t]): k is the kind of the token, s a       *)
(* string payload (title, id, free text), u the href of an anchor and t    *)
(* the text of an anchor.  The regular expressions of the source that work *)
(* on HTML are modelled on these tokens.                                   *)
(***************************************************************************)
EXTENDS Naturals, Integers, Sequences, FiniteSets, TLC

-----------------------------------------------------------------------------
(* Characters *)

UpperStr == "ABCDEFGHIJKLMNOPQRSTUVWXYZ"
LowerStr == "abcdefghijklmnopqrstuvwxyz"
AccentStr == "#$%@^~"
AccentBase == "aeioun"
DigitStr == "0123456789"
\* the Greek sigma: "+" is the capital letter, ";" the small letter, "=" the final small letter
SigmaStr == "+;="

CharsOf(str) == { SubSeq(str, i, i) : i \in 1..Len(str) }

UpperChars == CharsOf(UpperStr)
LowerChars == CharsOf(LowerStr)
AccentChars == CharsOf(AccentStr)
DigitChars == CharsOf(DigitStr)
UnreservedChars == LowerChars \cup UpperChars \cup DigitChars \cup CharsOf("-_.!~*'()")

IndexIn(str, ch) == CHOOSE i \in 1..Len(str) : SubSeq(str, i, i) = ch

\* String.prototype.toLowerCase on one character
toLowerCase(ch) ==
  IF ch \in UpperChars THEN LET i == IndexIn(UpperStr, ch) IN SubSeq(LowerStr, i, i)
  ELSE ch

\* .normalize('NFD').replace(/[\u0300-\u036f]/g, '') on one character
stripMarks(ch) ==
  IF ch \in AccentChars THEN LET i == IndexIn(AccentStr, ch) IN SubSeq(AccentBase, i, i)
  ELSE ch

IsSpace(ch) == ch = " "
IsLetter(ch) ==
  ch \in LowerChars \/ ch \in UpperChars \/ ch \in AccentChars \/ ch \in CharsOf(SigmaStr)
IsDigit(ch) == ch \in DigitChars

\* .replace(/[^\p{L}\p{N}\s]/gu, ' ') on one character
punctToSpace(ch) == IF IsLetter(ch) \/ IsDigit(ch) \/ IsSpace(ch) THEN ch ELSE " "

\* .replace(/\s+/g, ' ')
RECURSIVE CollapseFrom(_, _)
CollapseFrom(str, i) ==
  IF i > Len(str) THEN ""
  ELSE IF IsSpace(SubSeq(str, i, i)) /\ i > 1 /\ IsSpace(SubSeq(str, i - 1, i - 1))
       THEN CollapseFrom(str, i + 1)
       ELSE SubSeq(str, i, i) \o CollapseFrom(str, i + 1)
collapseSpaces(str) == CollapseFrom(str, 1)

\* String.prototype.trim
RECURSIVE trimLeft(_)
trimLeft(str) ==
  IF Len(str) > 0 /\ IsSpace(SubSeq(str, 1, 1)) THEN trimLeft(SubSeq(str, 2, Len(str))) ELSE str
RECURSIVE trimRight(_)
trimRight(str) ==
  IF Len(str) > 0 /\ IsSpace(SubSeq(str, Len(str), Len(str)))
  THEN trimRight(SubSeq(str, 1, Len(str) - 1)) ELSE str
trim(str) == trimRight(trimLeft(str))

\* String.prototype.toLowerCase at position i of str: the capital sigma becomes the final
\* small sigma when a cased letter precedes it and none follows it (case-ignorable
\* characters skipped), the small sigma otherwise; every other character maps alone
lowerAt(str, i) ==
  LET ch(j) == SubSeq(str, j, j)
      cased(c) == c \in LowerChars \/ c \in UpperChars \/ c \in AccentChars \/ c \in CharsOf(SigmaStr)
      ignorable(c) == c \in {"'", ".", ":"}
      before == \E j \in 1..(i - 1) : cased(ch(j)) /\ \A k \in (j + 1)..(i - 1) : ignorable(ch(k))
      after == \E j \in (i + 1)..Len(str) : cased(ch(j)) /\ \A k \in (i + 1)..(j - 1) : ignorable(ch(k))
  IN  IF ch(i) = "+" THEN (IF before /\ ~after THEN "=" ELSE ";") ELSE toLowerCase(ch(i))

normChar(str, i) == punctToSpace(stripMarks(lowerAt(str, i)))

RECURSIVE NormFrom(_, _)
NormFrom(str, i) ==
  IF i > Len(str) THEN "" ELSE normChar(str, i) \o NormFrom(str, i + 1)

\* variant of normalize: the text is trimmed first instead of last
normalizeTrimPrimero(str) == collapseSpaces(NormFrom(trim(str), 1))

\* normalize (src/index.js:33)
normalize(str) == trim(collapseSpaces(NormFrom(str, 1)))

\* normalize on any JavaScript value v = [t: its type, s: what v.toString() returns,
\* callable: whether v.toString is a function]: (s || '').toString() is '' for a falsy
\* value and throws a TypeError when toString cannot be called (ok = FALSE)
normalizeValor(v) ==
  LET falsy == \/ v.t \in {"null", "undefined"}
               \/ (v.t = "number" /\ v.s \in {"0", "NaN"})
               \/ (v.t = "boolean" /\ v.s = "false")
               \/ (v.t = "string" /\ v.s = "")
  IN  IF falsy THEN [ok |-> TRUE, s |-> normalize("")]
      ELSE IF ~v.callable THEN [ok |-> FALSE, s |-> ""]
      ELSE [ok |-> TRUE, s |-> normalize(v.s)]

\* the character map of sanitize (src/index.js:66)
escapeChar(ch) ==
  CASE ch = "<" -> "&lt;"
    [] ch = ">" -> "&gt;"
    [] ch = "{" -> "&#123;"
    [] ch = "}" -> "&#125;"
    [] OTHER -> ch

RECURSIVE EscapeFrom(_, _)
EscapeFrom(str, i) ==
  IF i > Len(str) THEN "" ELSE escapeChar(SubSeq(str, i, i)) \o EscapeFrom(str, i + 1)

\* sanitize (src/index.js:64)
sanitize(str) == trim(collapseSpaces(EscapeFrom(str, 1)))

ClampMax == 1200

\* clamp (src/index.js:74); the ellipsis is written "..."
clampStr(str) == IF Len(str) > ClampMax THEN SubSeq(str, 1, ClampMax) \o "..." ELSE str

\* String.prototype.includes
Includes(str, sub) ==
  \E i \in 1..(Len(str) - Len(sub) + 1) : SubSeq(str, i, i + Len(sub) - 1) = sub

\* a regular expression  a.*b  tested anywhere in str
IncludesThen(str, a, b) ==
  \E i \in 1..(Len(str) - Len(a) + 1) :
     /\ SubSeq(str, i, i + Len(a) - 1) = a
     /\ Includes(SubSeq(str, i + Len(a), Len(str)), b)

\* str.split(' ').filter(Boolean), as the sequence of words
RECURSIVE SplitFrom(_, _, _)
SplitFrom(str, i, cur) ==
  IF i > Len(str) THEN (IF cur = "" THEN <<>> ELSE <<cur>>)
  ELSE IF SubSeq(str, i, i) = " "
       THEN (IF cur = "" THEN <<>> ELSE <<cur>>) \o SplitFrom(str, i + 1, "")
       ELSE SplitFrom(str, i + 1, cur \o SubSeq(str, i, i))
splitWords(str) == SplitFrom(str, 1, "")

Range(seq) == { seq[i] : i \in 1..Len(seq) }

\* new Set(normalize(x).split(' ').filter(Boolean))
tokenSet(str) == Range(splitWords(str))

-----------------------------------------------------------------------------
(* Inputs that are text: titles, ids, form URLs, localities, user messages *)

TituloOf ==
  <<"Curso de Costura", "Gastronom%a", "Auxiliar de Gastronom%a",
    "Herrer%a", "Panader%a", "Soldadura", "Jardiner%a", "Apicultura", "Carpinter%a", "Electricidad">>
IdOf == <<"1", "42", "3", "4", "5", "6", "7", "8", "9", "10">>
FormularioOf ==
  <<"https://forms.gle/f1", "https://docs.google.com/forms/d/f42", "https://forms.gle/f3",
    "https://forms.gle/f4", "https://forms.gle/f5", "https://forms.gle/f6", "https://forms.gle/f7",
    "https://forms.gle/f8", "https://forms.gle/f9", "https://forms.gle/f10">>
LocalidadesOf ==
  << <<"San Salvador de Jujuy">>, <<"Tilcara", "Palpal#">>, <<>>,
     <<"Perico">>, <<"Perico">>, <<"Perico">>, <<"Perico">>, <<"Perico">>, <<"Perico">>, <<"Perico">> >>

Messages ==
  { "", "   ", "hola <3",
    "como me inscribo",
    "c@mo me inscribo al curso de costura",
    "quiero inscribirme en gastronom%a",
    "info del Curso de Costura",
    "link de inscripci@n de gastronomia",
    "horarios de auxiliar de gastronom%a?",
    "que cursos hay disponibles",
    "cursos en Tilcara",
    "cursos en gastronomia",
    "gastronomia y curso de costura",
    "costura curso",
    "link y horarios de gastronomia",
    "horarios y requisitos",
    "info de costura",
    "gastronomia2025",
    "como me inscribo, que cursos hay disponibles",
    "que cursos hay disponibles, cursos en Tilcara" }

GenMessages == { " ", "hola <3", "info del Curso de Costura", "como me inscribo" }

SessMessages == { " ", "hola <3", "info de gastronomia", "como me inscribo" }

TrimmedMessages == { trim(m) : m \in Messages \cup GenMessages \cup SessMessages }

-----------------------------------------------------------------------------
(* The text functions on the texts of the model, evaluated once.  xC(s) is   *)
(* x(s): read from the table when s is a text of the model, computed         *)
(* otherwise.                                                                *)

TextPool ==
  TrimmedMessages \cup { normalize(m) : m \in TrimmedMessages } \cup Range(TituloOf)
  \cup UNION { Range(LocalidadesOf[i]) : i \in 1..Len(LocalidadesOf) }
  \cup { "Tilcara", "gastronomia" }

normalizeTable == [str \in TextPool |-> normalize(str)]
normalizeC(str) == IF str \in TextPool THEN normalizeTable[str] ELSE normalize(str)

sanitizeTable == [str \in TextPool |-> sanitize(str)]
sanitizeC(str) == IF str \in TextPool THEN sanitizeTable[str] ELSE sanitize(str)

-----------------------------------------------------------------------------
(* Catalog and title matcher *)

VARIABLES
  cursos,     \* the catalog after load: a sequence of courses (let cursos)
  sessions,   \* the Map sessions: key -> [history, lastSuggestedCourse]; NoSession when absent
  pc,         \* per request: "idle", "awaiting" (suspended on the generation service), "done"
  req,        \* per request: what the handler holds while it runs (locals of the callback)
  resp,       \* per request: the response sent, [status, message, error]
  ran,        \* per request: the components the handler executed, in order
  appended,   \* per session key: every history entry ever pushed, in order
  turns       \* number of requests received so far

vars == <<cursos, sessions, pc, req, resp, ran, appended, turns>>

Abierta == "inscripcion_abierta"
Proximo == "proximo"
EnCurso == "en_curso"
Finalizado == "finalizado"

\* variant of isEligible: a course in progress counts as eligible
isEligibleConEnCurso(c) == c.estado \in {Abierta, Proximo, EnCurso}

\* ELIGIBLE_STATES / isEligible (src/index.js:134); estado is already lower case after pickCourse
isEligible(c) == c.estado \in {Abierta, Proximo}

\* isDirectTitleMention (src/index.js:138)
isDirectTitleMention(query, title) ==
  LET byTokens(inter, uni) ==
        \* j = inter / uni;  j >= 0.72 || (inter >= 2 && j >= 0.55)
        /\ uni > 0
        /\ \/ 100 * inter >= 72 * uni
           \/ (inter >= 2 /\ 100 * inter >= 55 * uni)
      bySets(qTok, tTok) == byTokens(Cardinality(qTok \cap tTok), Cardinality(qTok \cup tTok))
      mention(q, t) ==
        IF q = "" \/ t = "" THEN FALSE
        ELSE IF Includes(q, t) THEN TRUE
        ELSE bySets(tokenSet(q), tokenSet(t))
  IN  mention(normalizeC(query), normalizeC(title))

directTable == [q \in TrimmedMessages, t \in Range(TituloOf) |-> isDirectTitleMention(q, t)]
isDirectTitleMentionC(query, title) ==
  IF query \in TrimmedMessages /\ title \in Range(TituloOf) THEN directTable[query, title]
  ELSE isDirectTitleMention(query, title)

\* variant of jaccard: without the test for an empty set of words
jaccardSinVacio(a, b) ==
  LET A == tokenSet(normalizeC(a))
      B == tokenSet(normalizeC(b))
  IN  [n |-> Cardinality(A \cap B), d |-> Cardinality(A \cup B)]

\* jaccard (src/index.js:117-124); the number returned is n / d, and 0 is 0 / 1
jaccard(a, b) ==
  LET ratio(A, B) ==
        IF A = {} \/ B = {} THEN [n |-> 0, d |-> 1]
        ELSE [n |-> Cardinality(A \cap B), d |-> Cardinality(A \cup B)]
  IN  ratio(tokenSet(normalizeC(a)), tokenSet(normalizeC(b)))

\* topMatchesByTitle (src/index.js:126-132): scores, stable sort by score descending, slice(0, k)
topMatchesByTitle(courses, query, k) ==
  LET sorted(sc) ==
        LET before(i, j) == \/ sc[i].n * sc[j].d > sc[j].n * sc[i].d
                            \/ (sc[i].n * sc[j].d = sc[j].n * sc[i].d /\ i < j)
            pos(i) == 1 + Cardinality({ j \in 1..Len(courses) : before(j, i) })
            scored(i) == [id |-> courses[i].id, titulo |-> courses[i].titulo, score |-> sc[i]]
        IN  [p \in 1..(IF Len(courses) < k THEN Len(courses) ELSE k) |->
               scored(CHOOSE i \in 1..Len(courses) : pos(i) = p)]
  IN  sorted([i \in 1..Len(courses) |-> jaccard(courses[i].titulo, normalizeC(query))])

\* cursosElegibles (src/index.js:170)
cursosElegibles == SelectSeq(cursos, isEligible)

\* contextoCursos (src/index.js:171-174): the eligible courses as they are serialized for
\* the generation service (the catalogs of the model are below MAX_CONTEXT_CHARS)
contextoCursos == cursosElegibles

\* Array.prototype.slice(0, n)
Take(seq, n) == SubSeq(seq, 1, IF Len(seq) < n THEN Len(seq) ELSE n)

\* Array.prototype.slice(-n)
LastN(seq, n) == IF Len(seq) <= n THEN seq ELSE SubSeq(seq, Len(seq) - n + 1, Len(seq))

-----------------------------------------------------------------------------
(* HTML as tokens *)

Tok(k, s, u, t) == [k |-> k, s |-> s, u |-> u, t |-> t]
Txt(s) == Tok("txt", s, "", "")
Strong(s) == Tok("strong", s, "", "")        \* <strong>s</strong>
Anchor(u, t) == Tok("a", "", u, t)           \* <a href="u" ...>t</a>
Nav(id) == Tok("nav", id, "", "")            \* navigateToCourse:id
Dash == Tok("dash", "", "", "")              \* the em dash with the spaces around it
Br == Tok("br", "<br>", "", "")              \* <br>

IsAnchor(tok) == tok.k \in {"a", "a_sq"}     \* a_sq: an anchor whose href is not in double quotes

RECURSIVE LowerFrom(_, _)
LowerFrom(str, i) ==
  IF i > Len(str) THEN "" ELSE toLowerCase(SubSeq(str, i, i)) \o LowerFrom(str, i + 1)
lowerStr(str) == LowerFrom(str, 1)

AnchorTexts == {"Inscribirte", "inscribirte", "aqu%", "Formulario de inscripci@n"}
lowerTable == [str \in AnchorTexts |-> lowerStr(str)]
lowerStrC(str) == IF str \in AnchorTexts THEN lowerTable[str] ELSE lowerStr(str)

StartsWith(str, pre) == Len(str) >= Len(pre) /\ SubSeq(str, 1, Len(pre)) = pre
EndsWith(str, suf) == Len(str) >= Len(suf) /\ SubSeq(str, Len(str) - Len(suf) + 1, Len(str)) = suf

\* https?:\/\/(?:docs\.google\.com\/forms|forms\.gle)\/[^"]+   (flag i)
IsFormUrl(u) ==
  \E pre \in { "http://docs.google.com/forms/", "https://docs.google.com/forms/",
               "http://forms.gle/", "https://forms.gle/" } :
     StartsWith(lowerStr(u), pre) /\ Len(u) > Len(pre)

formUrlTable == [u \in Range(FormularioOf) |-> IsFormUrl(u)]
IsFormUrlC(u) ==
  IF u \in Range(FormularioOf) THEN formUrlTable[u]
  ELSE IF StartsWith(u, "/") THEN FALSE ELSE IsFormUrl(u)

\* encodeURIComponent on one character: letters, digits and - _ . ! ~ * ' ( ) are kept
encodeChar(ch) ==
  IF ch \in UnreservedChars THEN ch
  ELSE CASE ch = " " -> "%20"
         [] ch = "/" -> "%2F"
         [] ch = "?" -> "%3F"
         [] ch = "#" -> "%23"
         [] OTHER -> "%" \o ch

RECURSIVE EncodeFrom(_, _)
EncodeFrom(str, i) ==
  IF i > Len(str) THEN "" ELSE encodeChar(SubSeq(str, i, i)) \o EncodeFrom(str, i + 1)
encodeURIComponent(str) == EncodeFrom(str, 1)

\* ESTADO_LABEL / estadoLegible (src/index.js:177)
estadoLegible(c) ==
  CASE c.estado = Abierta -> "Inscripci@n abierta"
    [] c.estado = Proximo -> "Pr@ximo (inscripci@n a^n no habilitada)"
    [] c.estado = EnCurso -> "En cursada (sin inscripci@n)"
    [] c.estado = Finalizado -> "Finalizado (referencia)"
    [] OTHER -> "Pr@ximo (inscripci@n a^n no habilitada)"

\* variant of accionesHTML: the enrollment anchor is offered whatever the estado
accionesHTMLSiempre(c) ==
  <<Txt("Acciones: M#s info ("), Nav(c.id), Txt(")"), Txt(" | "), Anchor(c.formulario, "Inscribirte")>>

\* accionesHTML (src/index.js:185); the middle dot is written |
accionesHTML(c) ==
  <<Txt("Acciones: M#s info ("), Nav(c.id), Txt(")")>>
  \o (IF c.estado = Abierta /\ c.formulario # ""
      THEN <<Txt(" | "), Anchor(c.formulario, "Inscribirte")>>
      ELSE <<>>)

RECURSIVE JoinStr(_, _)
JoinStr(seq, sep) ==
  IF Len(seq) = 0 THEN ""
  ELSE IF Len(seq) = 1 THEN seq[1]
  ELSE seq[1] \o sep \o JoinStr(Tail(seq), sep)

\* Array.prototype.join('<br>') on a sequence of token lines
RECURSIVE JoinBr(_)
JoinBr(lines) ==
  IF Len(lines) = 0 THEN <<>>
  ELSE IF Len(lines) = 1 THEN lines[1]
  ELSE lines[1] \o <<Br>> \o JoinBr(Tail(lines))

\* String.prototype.split(/<br\s*\/?>/i)
RECURSIVE SplitBrFrom(_, _, _)
SplitBrFrom(html, i, cur) ==
  IF i > Len(html) THEN <<cur>>
  ELSE IF html[i].k = "br" THEN <<cur>> \o SplitBrFrom(html, i + 1, <<>>)
  ELSE SplitBrFrom(html, i + 1, Append(cur, html[i]))
splitBr(html) == SplitBrFrom(html, 1, <<>>)

\* detalleCortoHTML (src/index.js:193); the start date is the line "Inicio: ..."
detalleCortoHTML(c) ==
  JoinBr(<< <<Strong(c.titulo), Dash, Txt(estadoLegible(c))>>,
            <<Tok("dato", "Inicio", "", "")>>,
            <<Txt("Localidad(es): " \o (IF Len(c.localidades) > 0 THEN JoinStr(c.localidades, ", ")
                                        ELSE "Este curso todav%a no tiene sede confirmada"))>>,
            accionesHTML(c) >>)

\* cursosPorLocalidadElegibles (src/index.js:204)
cursosPorLocalidadElegibles(loc) ==
  LET nloc == normalizeC(loc)
      hasLoc(c) == \E i \in 1..Len(c.localidades) : normalizeC(c.localidades[i]) = nloc
  IN  SelectSeq(cursosElegibles, hasLoc)

-----------------------------------------------------------------------------
(* Intent router *)

\* rx.test(n) for a regular expression that is an alternation of literals
hasAny(n, words) == \E w \in words : Includes(n, w)

\* has (src/index.js:210): the pattern is tested on the normalized message
hasEnrollKeyword(msg) ==
  hasAny(normalizeC(msg), {"inscrib", "anotarme", "anotarme ya", "como me inscribo", "c@mo me inscribo"})

hasListadoPhrase(msg) ==
  hasAny(normalizeC(msg),
         { a \o " cursos " \o b \o " " \o c :
             a \in {"que", "qu$"}, b \in {"hay", "estan", "est#n"},
             c \in {"disponibles", "abiertos", "ahora"} })

\* [a-z......\s] with flag i: the class of the captured locality
IsLocChar(ch) == IsLetter(ch) \/ IsSpace(ch)

AllLocChars(str) == \A i \in 1..Len(str) : IsLocChar(SubSeq(str, i, i))

RECURSIVE SkipSpaces(_, _)
SkipSpaces(str, i) ==
  IF i <= Len(str) /\ IsSpace(SubSeq(str, i, i)) THEN SkipSpaces(str, i + 1) ELSE i

\* one attempt of /cursos\s+(en|de)\s+([a-z......\s]+)$/i at position i:
\* the position where group 2 starts, 0 when the attempt fails
LocMatchAt(msg, i) ==
  IF i + 5 > Len(msg) \/ lowerStr(SubSeq(msg, i, i + 5)) # "cursos" THEN 0
  ELSE LET k == SkipSpaces(msg, i + 6)
       IN  IF k = i + 6 \/ k + 1 > Len(msg) THEN 0
           ELSE IF lowerStr(SubSeq(msg, k, k + 1)) \notin {"en", "de"} THEN 0
           ELSE LET m == SkipSpaces(msg, k + 2)
                IN  IF m = k + 2 \/ m > Len(msg) THEN 0
                    ELSE IF AllLocChars(SubSeq(msg, m, Len(msg))) THEN m ELSE 0

\* msg.match(...) (src/index.js:217): mLoc[2].trim(), or "" when there is no match
matchLocalidad(msg) ==
  LET hits == { i \in 1..Len(msg) : LocMatchAt(msg, i) > 0 }
  IN  IF hits = {} THEN ""
      ELSE LET i == CHOOSE h \in hits : \A g \in hits : h <= g
           IN  trim(SubSeq(msg, LocMatchAt(msg, i), Len(msg)))

\* whether the pattern of the locality matches at all
hasLocalidad(msg) == \E i \in 1..Len(msg) : LocMatchAt(msg, i) > 0

\* cursos.find(c => isDirectTitleMention(msg, c.titulo)): the index, 0 when none
candAll(msg) ==
  LET hits == { i \in 1..Len(cursos) : isDirectTitleMentionC(msg, cursos[i].titulo) }
  IN  IF hits = {} THEN 0 ELSE CHOOSE h \in hits : \A g \in hits : h <= g

Intent(type, loc, course) == [type |-> type, loc |-> loc, course |-> course]

CourseIntents ==
  {"formulario", "horarios", "requisitos", "materiales", "sede", "fecha_inicio",
   "fecha_fin", "duracion", "mas-info", "no-publicado"}

\* variant of subIntent: the schedule keywords are looked at before the form keywords
subIntentHorariosPrimero(msg) ==
  LET n == normalizeC(msg)
  IN  IF hasAny(n, {"horari", "dias"}) THEN "horarios"
      ELSE IF hasAny(n, {"formulario", "link", "inscripcion", "inscribirme"}) THEN "formulario"
      ELSE "mas-info"

\* the keyword ladder of a directly mentioned course (src/index.js:223)
subIntent(msg) ==
  LET ladder(n) ==
      CASE hasAny(n, {"formulario", "link", "inscripcion", "inscripci@n", "inscribirme"}) -> "formulario"
        [] hasAny(n, {"horari", "dias", "d%as"}) -> "horarios"
        [] hasAny(n, {"requisit"}) -> "requisitos"
        [] hasAny(n, {"material"}) -> "materiales"
        [] hasAny(n, {"donde", "d@nd", "sede", "direccion", "direcci@n"}) -> "sede"
        [] \/ IncludesThen(n, "cuando", "empieza") \/ IncludesThen(n, "cu#ndo", "empieza")
           \/ IncludesThen(n, "fecha", "inicio") \/ hasAny(n, {"empieza", "inicio"}) -> "fecha_inicio"
        [] \/ IncludesThen(n, "cuando", "termina") \/ IncludesThen(n, "cu#ndo", "termina")
           \/ IncludesThen(n, "fecha", "fin") \/ hasAny(n, {"termina", "finaliza"}) -> "fecha_fin"
        [] hasAny(n, {"duracion", "duraci@n"}) -> "duracion"
        [] hasAny(n, {"precio", "costo", "cupos", "modalidad"}) -> "no-publicado"
        [] OTHER -> "mas-info"
  IN  ladder(normalizeC(msg))

\* what the patterns of detectIntent find in one message
keywordsOf(msg) ==
  [enroll |-> hasEnrollKeyword(msg), listado |-> hasListadoPhrase(msg),
   hasLoc |-> hasLocalidad(msg), loc |-> matchLocalidad(msg), sub |-> subIntent(msg)]

keywordsTable == [msg \in TrimmedMessages |-> keywordsOf(msg)]
keywordsOfC(msg) == IF msg \in TrimmedMessages THEN keywordsTable[msg] ELSE keywordsOf(msg)

\* detectIntent (src/index.js:212)
detectIntent(msg) ==
  LET route(kw, cand) ==
        IF kw.enroll THEN Intent("inscripcion-general", "", 0)
        ELSE IF kw.listado THEN Intent("listado-disponibles", "", 0)
        ELSE IF kw.hasLoc THEN Intent("por-localidad", kw.loc, 0)
        ELSE IF cand # 0 THEN Intent(kw.sub, "", cand)
        ELSE Intent("desconocido", "", 0)
  IN  route(keywordsOfC(msg), candAll(msg))

-----------------------------------------------------------------------------
(* Deterministic renderer *)

Null == <<>>

ListaAbiertasMax == 5
ListaDisponiblesMax == 10
ListaLocalidadMax == 7

\* one entry of the inscripcion-general list (src/index.js:247); the bullet is written *
itemAbierta(c) ==
  <<Txt("* "), Strong(c.titulo), Dash, Txt(estadoLegible(c)), Dash,
    Anchor(c.formulario, "Inscribirte"), Dash, Txt("("), Nav(c.id), Txt(")")>>

\* one entry of listado-disponibles and por-localidad (src/index.js:255, 269)
itemElegible(c) ==
  <<Txt("* "), Strong(c.titulo), Dash, Txt(estadoLegible(c))>>
  \o (IF c.estado = Abierta /\ c.formulario # ""
      THEN <<Dash, Anchor(c.formulario, "Inscribirte")>> ELSE <<>>)
  \o <<Dash, Txt("("), Nav(c.id), Txt(")")>>

\* the line "En el curso <strong>T</strong>, te podes inscribir aca: <a>Inscribirte</a>.<br>Acciones"
lineaInscribirte(c) ==
  <<Txt("En el curso "), Strong(c.titulo), Txt(", te pod$s inscribir ac#: "),
    Anchor(c.formulario, "Inscribirte"), Txt("."), Br>> \o accionesHTML(c)

\* "En el curso <strong>T</strong>, <dato>.<br>Acciones"
lineaDato(c, dato) ==
  <<Txt("En el curso "), Strong(c.titulo), dato, Br>> \o accionesHTML(c)

\* the fixed refusal line (src/index.js:283, 285, 437, 438)
lineaDura(c) ==
  <<Txt("El curso "), Strong(c.titulo),
    Txt(IF c.estado = Finalizado
        THEN " ya finaliz@, no pod$s inscribirte. M#s informaci@n "
        ELSE " est# en cursada, no admite nuevas inscripciones. M#s informaci@n "),
    Tok("a", "", "/curso/" \o encodeURIComponent(c.id) \o "?y=2025", "aqu%"),
    Txt(".")>>

\* renderByIntent (src/index.js:237)
renderByIntent(intent) ==
  CASE intent.type = "inscripcion-general" ->
         LET isOpen(c) == c.estado = Abierta
             abiertas == SelectSeq(cursosElegibles, isOpen)
         IN  IF Len(abiertas) = 0
             THEN <<Txt("Ahora no hay cursos con inscripci@n abierta. Pod$s consultar cu#ndo abre la inscripci@n de {t%tulo}")>>
             ELSE IF Len(abiertas) = 1 THEN lineaInscribirte(abiertas[1])
             ELSE <<Txt("Estas opciones tienen inscripci@n abierta:"), Br>>
                  \o JoinBr([i \in 1..Len(Take(abiertas, ListaAbiertasMax)) |-> itemAbierta(abiertas[i])])
    [] intent.type = "listado-disponibles" ->
         LET list == Take(cursosElegibles, ListaDisponiblesMax)
         IN  IF Len(list) = 0 THEN <<Txt("Por ahora no hay cursos disponibles. Prob# m#s tarde.")>>
             ELSE <<Txt("Cursos disponibles ahora:"), Br>> \o JoinBr([i \in 1..Len(list) |-> itemElegible(list[i])])
    [] intent.type = "por-localidad" ->
         LET list == cursosPorLocalidadElegibles(intent.loc)
         IN  IF Len(list) = 0
             THEN <<Txt("No hay cursos con inscripci@n abierta o pr@ximos en " \o sanitizeC(intent.loc)
                        \o ". Pod$s ver opciones disponibles en San Salvador de Jujuy.")>>
             ELSE <<Txt("Cursos en " \o sanitizeC(intent.loc) \o ":"), Br>>
                  \o JoinBr([i \in 1..Len(Take(list, ListaLocalidadMax)) |-> itemElegible(list[i])])
    [] intent.type \in CourseIntents ->
         LET c == cursos[intent.course]
         IN  IF c.estado \in {EnCurso, Finalizado} THEN lineaDura(c)
             ELSE IF intent.type = "formulario"
                  THEN IF c.estado = Abierta /\ c.formulario # ""
                       THEN lineaInscribirte(c)
                       ELSE lineaDato(c, Txt(", la inscripci@n a^n no est# habilitada."))
             ELSE IF intent.type = "mas-info" THEN detalleCortoHTML(c)
             ELSE lineaDato(c, Tok("dato", intent.type, "", ""))
    [] OTHER -> Null

-----------------------------------------------------------------------------
(* Enrollment-link sanitizer *)

\* ABRE_LINK_RE.test(line) (src/index.js:397)
hasAbreLink(line) ==
  \E i \in 1..Len(line) :
     line[i].k = "a" /\ IsFormUrlC(line[i].u) /\ lowerStrC(line[i].t) = "inscribirte"

\* (\d+) at the start of str
RECURSIVE DigitPrefix(_)
DigitPrefix(str) ==
  IF Len(str) > 0 /\ IsDigit(SubSeq(str, 1, 1))
  THEN SubSeq(str, 1, 1) \o DigitPrefix(SubSeq(str, 2, Len(str)))
  ELSE ""

\* line.match(/navigateToCourse:(\d+)/): group 1 of the first match, "" when none
navId(line) ==
  LET hits == { i \in 1..Len(line) : line[i].k = "nav" /\ DigitPrefix(line[i].s) # "" }
  IN  IF hits = {} THEN ""
      ELSE DigitPrefix(line[CHOOSE h \in hits : \A g \in hits : h <= g].s)

\* openIds (src/index.js:400)
openIds == { cursosElegibles[i].id : i \in { j \in 1..Len(cursosElegibles) : cursosElegibles[j].estado = Abierta } }

RemoveAt(seq, i, n) == SubSeq(seq, 1, i - 1) \o SubSeq(seq, i + n, Len(seq))

isInscribirteAnchor(tok) == IsAnchor(tok) /\ lowerStrC(tok.t) = "inscribirte"

\* .replace(/\s*--\s*<a[^>]+>Inscribirte<\/a>/i, ''): the first dash followed by the anchor
quitarDashAnchor(line) ==
  LET hits == { i \in 1..(Len(line) - 1) : line[i].k = "dash" /\ isInscribirteAnchor(line[i + 1]) }
  IN  IF hits = {} THEN line
      ELSE RemoveAt(line, CHOOSE h \in hits : \A g \in hits : h <= g, 2)

FrasesInscribir ==
  { "te pod" \o e \o "s inscribir ac" \o a \o ":" : e \in {"e", "$"}, a \in {"a", "#"} }

NoHabilitada == "la inscripci@n a^n no est# habilitada."

endsWithFrase(str) == \E f \in FrasesInscribir : EndsWith(lowerStr(trimRight(str)), f)

\* the text before the phrase "te podes inscribir aca:" that ends str
antesDeFrase(str) ==
  LET f == CHOOSE g \in FrasesInscribir : EndsWith(lowerStr(trimRight(str)), g)
  IN  SubSeq(str, 1, Len(trimRight(str)) - Len(f))

\* .replace(/te pod[e.]s inscribir ac[a.]:\s*<a[^>]+>inscribirte<\/a>\.?/i, NoHabilitada)
reemplazarFrase(line) ==
  LET hits == { i \in 1..(Len(line) - 1) :
                  line[i].k = "txt" /\ endsWithFrase(line[i].s) /\ isInscribirteAnchor(line[i + 1]) }
  IN  IF hits = {} THEN line
      ELSE LET i == CHOOSE h \in hits : \A g \in hits : h <= g
               rest == SubSeq(line, i + 2, Len(line))
               dot == Len(rest) > 0 /\ rest[1].k = "txt" /\ StartsWith(rest[1].s, ".")
               rest2 == IF ~dot THEN rest
                        ELSE IF Len(rest[1].s) = 1 THEN Tail(rest)
                        ELSE <<Txt(SubSeq(rest[1].s, 2, Len(rest[1].s)))>> \o Tail(rest)
           IN  SubSeq(line, 1, i - 1) \o <<Txt(antesDeFrase(line[i].s) \o NoHabilitada)>> \o rest2

\* the callback of lines.map (src/index.js:403)
sanitizeLine(line) ==
  IF ~hasAbreLink(line) THEN line
  ELSE LET id == navId(line)
           isOpen == IF id # "" THEN id \in openIds ELSE FALSE
       IN  IF isOpen THEN line ELSE reemplazarFrase(quitarDashAnchor(line))

\* sanitizeEnrollmentLinksByLine (src/index.js:398)
sanitizeEnrollmentLinksByLine(html) ==
  LET lines == splitBr(html)
  IN  JoinBr([i \in 1..Len(lines) |-> sanitizeLine(lines[i])])

-----------------------------------------------------------------------------
(* Text of the generation service and its post-processing *)

\* \d{1,2}\s+de\s+\p{L}+ matching the whole of str
isFechaCorta(str) ==
  LET d == DigitPrefix(str)
      k == SkipSpaces(str, Len(d) + 1)
      m == SkipSpaces(str, k + 2)
  IN  /\ Len(d) \in {1, 2}
      /\ k > Len(d) + 1
      /\ k + 1 <= Len(str) /\ lowerStr(SubSeq(str, k, k + 1)) = "de"
      /\ m > k + 2 /\ m <= Len(str)
      /\ \A i \in m..Len(str) : IsLetter(SubSeq(str, i, i))

\* the three replace calls of src/index.js:504-506 on one token:
\* mdbold is **s**, mdlink is [t](u); every other token is left as it is
formatToken(tok) ==
  CASE tok.k = "mdbold" -> IF isFechaCorta(tok.s) THEN Txt(tok.s) ELSE Strong(tok.s)
    [] tok.k = "mdlink" ->
         IF StartsWith(tok.u, "http://") \/ StartsWith(tok.u, "https://")
         THEN Anchor(tok.u, tok.t) ELSE tok
    [] OTHER -> tok

isBlankTxt(tok) == tok.k = "txt" /\ trim(tok.s) = ""

\* String.prototype.trim on the text of the service
RECURSIVE trimHtmlLeft(_)
trimHtmlLeft(html) ==
  IF Len(html) = 0 THEN html
  ELSE IF isBlankTxt(html[1]) THEN trimHtmlLeft(Tail(html))
  ELSE IF html[1].k = "txt" THEN <<Txt(trimLeft(html[1].s))>> \o Tail(html)
  ELSE html
RECURSIVE trimHtmlRight(_)
trimHtmlRight(html) ==
  IF Len(html) = 0 THEN html
  ELSE LET n == Len(html)
       IN  IF isBlankTxt(html[n]) THEN trimHtmlRight(SubSeq(html, 1, n - 1))
           ELSE IF html[n].k = "txt" THEN SubSeq(html, 1, n - 1) \o <<Txt(trimRight(html[n].s))>>
           ELSE html
trimHtml(html) == trimHtmlRight(trimHtmlLeft(html))

\* src/index.js:501-506: trim, then the format replacements
formatAiResponse(content) ==
  LET t == trimHtml(content) IN [i \in 1..Len(t) |-> formatToken(t[i])]

\* the characters of one token in the HTML string
renderToken(tok) ==
  CASE tok.k = "txt" -> tok.s
    [] tok.k = "strong" -> "<strong>" \o tok.s \o "</strong>"
    [] tok.k = "a" -> "<a href=\"" \o tok.u \o "\" target=\"_blank\" rel=\"noopener\">" \o tok.t \o "</a>"
    [] tok.k = "a_sq" -> "<a href='" \o tok.u \o "'>" \o tok.t \o "</a>"
    [] tok.k = "nav" -> "navigateToCourse:" \o tok.s
    [] tok.k = "dash" -> " - "
    [] tok.k = "br" -> tok.s
    [] tok.k = "mdbold" -> "**" \o tok.s \o "**"
    [] tok.k = "mdlink" -> "[" \o tok.t \o "](" \o tok.u \o ")"
    [] OTHER -> tok.s

RECURSIVE renderHtml(_)
renderHtml(html) == IF Len(html) = 0 THEN "" ELSE renderToken(html[1]) \o renderHtml(Tail(html))

\* clamp (src/index.js:74) on HTML: text over the limit is cut to its first ClampMax characters
clampHtml(html) ==
  LET str == renderHtml(html)
  IN  IF Len(str) > ClampMax THEN <<Txt(clampStr(str))>> ELSE html

-----------------------------------------------------------------------------
(* Inputs: catalogs, user messages, texts of the generation service *)

MaxCursos == 2      \* length of the catalogs whose estados are enumerated
NFillers == 5       \* open courses placed before the course asked about in the long catalogs
MaxTurns == 1       \* requests received in a behaviour of Spec
MaxTurnsSess == 4   \* requests received in a behaviour of SpecSess

Keys == {"A", "B"}
Reqs == {1, 2}

\* estado as it may stand in cursos_2025.json; "" is an absent estado
RawEstados == {"", Abierta, Proximo, EnCurso, Finalizado, "suspendido", "EN_CURSO"}

\* estado: (c.estado || 'proximo').toLowerCase() (src/index.js:113)
pickEstado(raw) == lowerStr(IF raw = "" THEN "proximo" ELSE raw)

\* the values of estado after the load
Estados == { pickEstado(raw) : raw \in RawEstados }

\* pickCourse (src/index.js:80) on course i of the file; the fields no formula reads are left out
Course(i, raw) ==
  [id |-> IdOf[i], titulo |-> TituloOf[i], estado |-> pickEstado(raw),
   formulario |-> FormularioOf[i], localidades |-> LocalidadesOf[i]]

EstadoSeqs(lo, hi) == UNION { [1..n -> RawEstados] : n \in lo..hi }

SmallCatalog(est) == [i \in 1..Len(est) |-> Course(i, est[i])]

Fillers(k) == [i \in 1..k |-> Course(3 + i, Abierta)]

\* cursos_2025.json as it may be found at startup: absent, not JSON, JSON whose root is
\* an object, or an array of at most MaxCursos courses (and the long ones: NFillers open
\* courses, then course 1); parsed is the array after parsed.map(pickCourse)
Fuentes ==
  { [kind |-> k, parsed |-> SmallCatalog(est)] :
       k \in {"missing", "invalid", "object"}, est \in EstadoSeqs(1, 1) }
  \cup { [kind |-> "array", parsed |-> SmallCatalog(est)] : est \in EstadoSeqs(0, MaxCursos) }
  \cup { [kind |-> "array", parsed |-> Fillers(NFillers) \o SmallCatalog(est)] : est \in EstadoSeqs(1, 1) }

\* variant of cargarCursos: the courses of a root that is an object are taken as well
cargarCursosSinChequeo(f) == IF f.kind \in {"array", "object"} THEN f.parsed ELSE <<>>

\* src/index.js:157-166: cursos stays [] when reading, parsing or the array test throws
cargarCursos(f) == IF f.kind = "array" THEN f.parsed ELSE <<>>

\* the catalogs the server may start with
Catalogs == { cargarCursos(f) : f \in Fuentes }

SessCatalogs == { SmallCatalog(<<Abierta, EnCurso>>) }

MdBold(s) == Tok("mdbold", s, "", "")
MdLink(t, u) == Tok("mdlink", "", u, t)

\* texts the generation service may answer with, about course i (and course j)
GenLista(i, j) ==
  <<Txt("* "), MdBold(TituloOf[i]), Dash, Txt("Inscripci@n abierta"), Dash,
    MdLink("Inscribirte", FormularioOf[i]), Dash, Txt("("), Nav(IdOf[j]), Txt(")")>>
GenFrase(i) ==
  <<Txt("En el curso "), MdBold(TituloOf[i]), Txt(", te podes inscribir aca: "),
    Anchor(FormularioOf[i], "Inscribirte"), Txt(".")>>
GenSuelto(i) ==
  <<MdBold(TituloOf[i]), Txt(": "), MdLink("Inscribirte", FormularioOf[i])>>
GenOtroTexto(i) ==
  <<Strong(TituloOf[i]), Txt(" "), Anchor(FormularioOf[i], "Formulario de inscripci@n")>>
GenCruzado(i, j) ==
  <<MdBold(TituloOf[i]), Txt(": "), MdLink("Inscribirte", FormularioOf[j])>>
GenSaludo == <<Txt(" Hola, soy Camila. Empezamos el "), MdBold("15 de junio"), Txt(" ")>>
GenDosLinks ==
  <<Txt("Opciones"), Dash, MdLink("Inscribirte", FormularioOf[1]), Dash,
    MdLink("Inscribirte", FormularioOf[2]), Tok("br", "<br/>", "", ""), Txt("(fin)")>>

Gens ==
  { <<>>, GenSaludo, GenDosLinks, GenCruzado(1, 2) }
  \cup { GenLista(i, j) : i \in 1..2, j \in 1..2 }
  \cup { GenFrase(i) : i \in 1..2 } \cup { GenSuelto(i) : i \in 1..2 }
  \cup { GenOtroTexto(i) : i \in 1..2 }

BasicGens == { <<>>, GenSaludo, GenLista(1, 1) }

SessGens == { GenLista(1, 1) }

-----------------------------------------------------------------------------
(* The endpoint POST /api/chat (src/index.js:418) *)

HistoryMax == 6

NoResp == [status |-> 0, message |-> <<>>, error |-> ""]
NoReq == [sid |-> "", userMessage |-> "", candidates |-> <<>>, historial |-> <<>>, content |-> <<>>]
NoCourse == [titulo |-> "", formulario |-> ""]

Entry(role, content) == [role |-> role, content |-> content]

\* sessions.get(sid), or the fresh state that line 426 stores
stateOf(sid) ==
  IF sid \in DOMAIN sessions THEN sessions[sid]
  ELSE [history |-> <<>>, lastSuggestedCourse |-> NoCourse]

\* variant of withState: one state object shared by every key of the store
withStateGlobal(sid, st) == [k \in DOMAIN sessions \cup {sid} |-> st]

\* sessions with the state of sid replaced (the Map holds one object per key)
withState(sid, st) == [k \in DOMAIN sessions \cup {sid} |-> IF k = sid THEN st ELSE sessions[k]]

\* variant of duroTarget: the last blocked course mentioned instead of the first
duroTargetUltimo(userMessage) ==
  LET hits == { i \in 1..Len(cursos) :
                  /\ cursos[i].estado \in {EnCurso, Finalizado}
                  /\ isDirectTitleMentionC(userMessage, cursos[i].titulo) }
  IN  IF hits = {} THEN 0 ELSE CHOOSE h \in hits : \A g \in hits : h >= g

\* variant of duroTarget: only a finished course is refused
duroTargetSoloFinalizado(userMessage) ==
  LET hits == { i \in 1..Len(cursos) :
                  /\ cursos[i].estado = Finalizado
                  /\ isDirectTitleMentionC(userMessage, cursos[i].titulo) }
  IN  IF hits = {} THEN 0 ELSE CHOOSE h \in hits : \A g \in hits : h <= g

\* cursos.find(c => blocked(c) && isDirectTitleMention(userMessage, c.titulo)) (src/index.js:429)
duroTarget(userMessage) ==
  LET hits == { i \in 1..Len(cursos) :
                  /\ cursos[i].estado \in {EnCurso, Finalizado}
                  /\ isDirectTitleMentionC(userMessage, cursos[i].titulo) }
  IN  IF hits = {} THEN 0 ELSE CHOOSE h \in hits : \A g \in hits : h <= g

\* variant of pushTurn: the history is cut to the last 5 entries
pushTurnImpar(history, userMessage, out) ==
  LastN(history \o <<Entry("user", <<Txt(clampStr(sanitizeC(userMessage)))>>),
                     Entry("assistant", clampHtml(out))>>, HistoryMax - 1)

\* variant of pushTurn: the two entries are appended and nothing is dropped
pushTurnSinRecorte(history, userMessage, out) ==
  history \o <<Entry("user", <<Txt(clampStr(sanitizeC(userMessage)))>>),
               Entry("assistant", clampHtml(out))>>

\* the two pushes and the slice(-6) (src/index.js:441, 455, 512)
pushTurn(history, userMessage, out) ==
  LastN(history \o <<Entry("user", <<Txt(clampStr(sanitizeC(userMessage)))>>),
                     Entry("assistant", clampHtml(out))>>, HistoryMax)

entriesOf(userMessage, out) ==
  <<Entry("user", <<Txt(clampStr(sanitizeC(userMessage)))>>), Entry("assistant", clampHtml(out))>>

\* msgOut.match(/<strong>([^<]+)<\/strong>.*?<a href="(form url)"/i): m[1].trim(), "" when no match
tituloSugerido(html) ==
  LET hits == { i \in 1..Len(html) :
                  /\ html[i].k = "strong" /\ html[i].s # "" /\ ~Includes(html[i].s, "<")
                  /\ \E j \in (i + 1)..Len(html) : html[j].k = "a" /\ IsFormUrlC(html[j].u) }
  IN  IF hits = {} THEN "" ELSE trim(html[CHOOSE h \in hits : \A g \in hits : h <= g].s)

\* src/index.js:460-465 and 517-522
nuevoSugerido(actual, html) ==
  LET title == tituloSugerido(html)
      hits == { i \in 1..Len(cursosElegibles) :
                  cursosElegibles[i].titulo = title /\ cursosElegibles[i].estado = Abierta }
  IN  IF title = "" \/ hits = {} THEN actual
      ELSE LET c == cursosElegibles[CHOOSE h \in hits : \A g \in hits : h <= g]
           IN  [titulo |-> c.titulo, formulario |-> c.formulario]

\* the entries of the short history as they are sent (src/index.js:484-489):
\* a user entry is escaped and clamped again, an assistant entry is clamped again
historialDe(history) ==
  [i \in 1..Len(history) |->
     IF history[i].role = "user"
     THEN Entry("user", <<Txt(clampStr(sanitizeC(renderHtml(history[i].content))))>>)
     ELSE Entry("assistant", clampHtml(history[i].content))]

\* variant of CanReceive: the server takes no request while a generation call is in flight
CanReceiveBloqueante(r, maxT) ==
  /\ pc[r] # "awaiting"
  /\ turns < maxT
  /\ \A q \in Reqs : pc[q] # "awaiting"

\* a request takes the lowest slot that has no generation call in flight
CanReceive(r, maxT) ==
  /\ pc[r] # "awaiting"
  /\ turns < maxT
  /\ \A q \in Reqs : q < r => pc[q] = "awaiting"

\* variant of ReceiveEmpty: the session is looked up, and created, before the message is tested
ReceiveEmptyConSesion(r, sid, raw, maxT) ==
  /\ CanReceive(r, maxT)
  /\ trim(raw) = ""
  /\ turns' = turns + 1
  /\ sessions' = withState(sid, stateOf(sid))
  /\ pc' = [pc EXCEPT ![r] = "done"]
  /\ req' = [req EXCEPT ![r] = [NoReq EXCEPT !.sid = sid]]
  /\ resp' = [resp EXCEPT ![r] = [status |-> 400, message |-> <<>>, error |-> "Mensaje vac%o"]]
  /\ ran' = [ran EXCEPT ![r] = <<"respond">>]
  /\ UNCHANGED <<cursos, appended>>

\* src/index.js:419-421: an empty message is answered 400 before anything else
ReceiveEmpty(r, sid, raw, maxT) ==
  /\ CanReceive(r, maxT)
  /\ trim(raw) = ""
  /\ turns' = turns + 1
  /\ pc' = [pc EXCEPT ![r] = "done"]
  /\ req' = [req EXCEPT ![r] = [NoReq EXCEPT !.sid = sid]]
  /\ resp' = [resp EXCEPT ![r] = [status |-> 400, message |-> <<>>, error |-> "Mensaje vac%o"]]
  /\ ran' = [ran EXCEPT ![r] = <<"respond">>]
  /\ UNCHANGED <<cursos, sessions, appended>>

\* src/index.js:424-446: the hard rule
ReceiveRefusal(r, sid, raw, maxT) ==
  LET refuse(userMessage, state, target) ==
        LET msg == lineaDura(cursos[target])
        IN  /\ target # 0
            /\ turns' = turns + 1
            /\ sessions' = withState(sid, [state EXCEPT !.history = pushTurn(@, userMessage, msg)])
            /\ appended' = [appended EXCEPT ![sid] = @ \o entriesOf(userMessage, msg)]
            /\ pc' = [pc EXCEPT ![r] = "done"]
            /\ req' = [req EXCEPT ![r] = [NoReq EXCEPT !.sid = sid, !.userMessage = userMessage]]
            /\ resp' = [resp EXCEPT ![r] = [status |-> 200, message |-> msg, error |-> ""]]
            /\ ran' = [ran EXCEPT ![r] = <<"duroTarget", "history", "respond">>]
            /\ UNCHANGED cursos
  IN  /\ CanReceive(r, maxT)
      /\ trim(raw) # ""
      /\ refuse(trim(raw), stateOf(sid), duroTarget(trim(raw)))

\* src/index.js:449-468: the deterministic router answered
ReceiveRouted(r, sid, raw, maxT) ==
  LET answer(userMessage, state, msgOut) ==
        /\ turns' = turns + 1
        /\ sessions' = withState(sid, [history |-> pushTurn(state.history, userMessage, msgOut),
                                       lastSuggestedCourse |-> nuevoSugerido(state.lastSuggestedCourse, msgOut)])
        /\ appended' = [appended EXCEPT ![sid] = @ \o entriesOf(userMessage, msgOut)]
        /\ pc' = [pc EXCEPT ![r] = "done"]
        /\ req' = [req EXCEPT ![r] = [NoReq EXCEPT !.sid = sid, !.userMessage = userMessage]]
        /\ resp' = [resp EXCEPT ![r] = [status |-> 200, message |-> msgOut, error |-> ""]]
        /\ ran' = [ran EXCEPT ![r] = <<"duroTarget", "detectIntent", "renderByIntent",
                                       "sanitizeEnrollmentLinksByLine", "history",
                                       "lastSuggestedCourse", "respond">>]
        /\ UNCHANGED cursos
      route(userMessage, routed) ==
        /\ routed # Null
        /\ answer(userMessage, stateOf(sid), sanitizeEnrollmentLinksByLine(routed))
  IN  /\ CanReceive(r, maxT)
      /\ trim(raw) # ""
      /\ duroTarget(trim(raw)) = 0
      /\ route(trim(raw), renderByIntent(detectIntent(trim(raw))))

\* variant of ReceiveGenerate: the service is called whether or not a template answered
ReceiveGenerateSiempre(r, sid, raw, maxT) ==
  LET userMessage == trim(raw)
      state == stateOf(sid)
      shortHistory == historialDe(LastN(state.history, HistoryMax))
  IN  /\ CanReceive(r, maxT)
      /\ userMessage # ""
      /\ duroTarget(userMessage) = 0
      /\ turns' = turns + 1
      /\ sessions' = withState(sid, state)
      /\ pc' = [pc EXCEPT ![r] = "awaiting"]
      /\ req' = [req EXCEPT ![r] = [sid |-> sid, userMessage |-> userMessage,
                                    candidates |-> topMatchesByTitle(cursosElegibles, userMessage, 3),
                                    historial |-> shortHistory \o
                                       <<Entry("user", <<Txt(clampStr(sanitizeC(userMessage)))>>)>>,
                                    content |-> <<>>]]
      /\ resp' = [resp EXCEPT ![r] = NoResp]
      /\ ran' = [ran EXCEPT ![r] = <<"duroTarget", "detectIntent", "renderByIntent", "llm">>]
      /\ UNCHANGED <<cursos, appended>>

\* src/index.js:470-499: no template; the request is sent and the handler is suspended
ReceiveGenerate(r, sid, raw, maxT) ==
  LET userMessage == trim(raw)
      state == stateOf(sid)
      shortHistory == historialDe(LastN(state.history, HistoryMax))
  IN  /\ CanReceive(r, maxT)
      /\ userMessage # ""
      /\ duroTarget(userMessage) = 0
      /\ renderByIntent(detectIntent(userMessage)) = Null
      /\ turns' = turns + 1
      /\ sessions' = withState(sid, state)
      /\ pc' = [pc EXCEPT ![r] = "awaiting"]
      /\ req' = [req EXCEPT ![r] = [sid |-> sid, userMessage |-> userMessage,
                                    candidates |-> topMatchesByTitle(cursosElegibles, userMessage, 3),
                                    historial |-> shortHistory \o
                                       <<Entry("user", <<Txt(clampStr(sanitizeC(userMessage)))>>)>>,
                                    content |-> <<>>]]
      /\ resp' = [resp EXCEPT ![r] = NoResp]
      /\ ran' = [ran EXCEPT ![r] = <<"duroTarget", "detectIntent", "renderByIntent", "llm">>]
      /\ UNCHANGED <<cursos, appended>>

\* variant of GenerationResolve: the text of the service is used without the post-filter
GenerationResolveSinFiltro(r, content) ==
  LET sid == req[r].sid
      userMessage == req[r].userMessage
      state == sessions[sid]
      aiResponse == formatAiResponse(content)
  IN  /\ pc[r] = "awaiting"
      /\ sessions' = withState(sid, [history |-> pushTurn(state.history, userMessage, aiResponse),
                                     lastSuggestedCourse |-> nuevoSugerido(state.lastSuggestedCourse, aiResponse)])
      /\ appended' = [appended EXCEPT ![sid] = @ \o entriesOf(userMessage, aiResponse)]
      /\ pc' = [pc EXCEPT ![r] = "done"]
      /\ req' = [req EXCEPT ![r].content = content]
      /\ resp' = [resp EXCEPT ![r] = [status |-> 200, message |-> aiResponse, error |-> ""]]
      /\ ran' = [ran EXCEPT ![r] = @ \o <<"sanitizeEnrollmentLinksByLine", "history",
                                          "lastSuggestedCourse", "respond">>]
      /\ UNCHANGED <<cursos, turns>>

\* variant of GenerationResolve: the history is written from the copy taken when the
\* request was received, so what was appended in between is overwritten
GenerationResolveUltimaEscritura(r, content) ==
  LET sid == req[r].sid
      userMessage == req[r].userMessage
      state == sessions[sid]
      copia == SubSeq(req[r].historial, 1, Len(req[r].historial) - 1)
      aiResponse == sanitizeEnrollmentLinksByLine(formatAiResponse(content))
  IN  /\ pc[r] = "awaiting"
      /\ sessions' = withState(sid, [history |-> pushTurn(copia, userMessage, aiResponse),
                                     lastSuggestedCourse |-> nuevoSugerido(state.lastSuggestedCourse, aiResponse)])
      /\ appended' = [appended EXCEPT ![sid] = @ \o entriesOf(userMessage, aiResponse)]
      /\ pc' = [pc EXCEPT ![r] = "done"]
      /\ req' = [req EXCEPT ![r].content = content]
      /\ resp' = [resp EXCEPT ![r] = [status |-> 200, message |-> aiResponse, error |-> ""]]
      /\ ran' = [ran EXCEPT ![r] = @ \o <<"sanitizeEnrollmentLinksByLine", "history",
                                          "lastSuggestedCourse", "respond">>]
      /\ UNCHANGED <<cursos, turns>>

\* src/index.js:501-524: the service answered with content
GenerationResolve(r, content) ==
  LET sid == req[r].sid
      userMessage == req[r].userMessage
      state == sessions[sid]
      aiResponse == sanitizeEnrollmentLinksByLine(formatAiResponse(content))
  IN  /\ pc[r] = "awaiting"
      /\ sessions' = withState(sid, [history |-> pushTurn(state.history, userMessage, aiResponse),
                                     lastSuggestedCourse |-> nuevoSugerido(state.lastSuggestedCourse, aiResponse)])
      /\ appended' = [appended EXCEPT ![sid] = @ \o entriesOf(userMessage, aiResponse)]
      /\ pc' = [pc EXCEPT ![r] = "done"]
      /\ req' = [req EXCEPT ![r].content = content]
      /\ resp' = [resp EXCEPT ![r] = [status |-> 200, message |-> aiResponse, error |-> ""]]
      /\ ran' = [ran EXCEPT ![r] = @ \o <<"sanitizeEnrollmentLinksByLine", "history",
                                          "lastSuggestedCourse", "respond">>]
      /\ UNCHANGED <<cursos, turns>>

\* variant of GenerationReject: the user message of the failed turn is kept in the history
GenerationRejectGuardaMensaje(r) ==
  LET sid == req[r].sid
      entrada == Entry("user", <<Txt(clampStr(sanitizeC(req[r].userMessage)))>>)
  IN  /\ pc[r] = "awaiting"
      /\ sessions' = withState(sid, [sessions[sid] EXCEPT
                                       !.history = LastN(@ \o <<entrada>>, HistoryMax)])
      /\ pc' = [pc EXCEPT ![r] = "done"]
      /\ resp' = [resp EXCEPT ![r] = [status |-> 500, message |-> <<>>, error |-> "Error al generar respuesta"]]
      /\ ran' = [ran EXCEPT ![r] = @ \o <<"respond">>]
      /\ UNCHANGED <<cursos, appended, req, turns>>

\* variant of GenerationReject: the message of the caught error is added to the body
GenerationRejectConDetalle(r) ==
  /\ pc[r] = "awaiting"
  /\ pc' = [pc EXCEPT ![r] = "done"]
  /\ resp' = [resp EXCEPT ![r] = [status |-> 500, message |-> <<>>,
                                   error |-> "Error al generar respuesta: timeout"]]
  /\ ran' = [ran EXCEPT ![r] = @ \o <<"respond">>]
  /\ UNCHANGED <<cursos, sessions, appended, req, turns>>

\* src/index.js:525-528: the call failed
GenerationReject(r) ==
  /\ pc[r] = "awaiting"
  /\ pc' = [pc EXCEPT ![r] = "done"]
  /\ resp' = [resp EXCEPT ![r] = [status |-> 500, message |-> <<>>, error |-> "Error al generar respuesta"]]
  /\ ran' = [ran EXCEPT ![r] = @ \o <<"respond">>]
  /\ UNCHANGED <<cursos, sessions, appended, req, turns>>

InitWith(cats) ==
  /\ cursos \in cats
  /\ sessions = <<>>
  /\ pc = [r \in Reqs |-> "idle"]
  /\ req = [r \in Reqs |-> NoReq]
  /\ resp = [r \in Reqs |-> NoResp]
  /\ ran = [r \in Reqs |-> <<>>]
  /\ appended = [k \in Keys |-> <<>>]
  /\ turns = 0

NextWith(reqs, keys, msgs, gens, maxT) ==
  \/ \E r \in reqs, sid \in keys, raw \in msgs : ReceiveEmpty(r, sid, raw, maxT)
  \/ \E r \in reqs, sid \in keys, raw \in msgs : ReceiveRefusal(r, sid, raw, maxT)
  \/ \E r \in reqs, sid \in keys, raw \in msgs : ReceiveRouted(r, sid, raw, maxT)
  \/ \E r \in reqs, sid \in keys, raw \in msgs : ReceiveGenerate(r, sid, raw, maxT)
  \/ \E r \in reqs, content \in gens : GenerationResolve(r, content)
  \/ \E r \in reqs : GenerationReject(r)

\* one session, one request at a time: every catalog and every message
Init == InitWith(Catalogs)
Next == NextWith({1}, {"A"}, Messages, BasicGens, MaxTurns)
Spec == Init /\ [][Next]_vars

\* one session, one request at a time: every catalog and every text of the generation service
NextGen == NextWith({1}, {"A"}, GenMessages, Gens, MaxTurns)
SpecGen == Init /\ [][NextGen]_vars

\* two sessions, overlapping requests, several turns
InitSess == InitWith(SessCatalogs)
NextSess == NextWith(Reqs, Keys, SessMessages, SessGens, MaxTurnsSess)
SpecSess == InitSess /\ [][NextSess]_vars

\* as SpecSess, where every generation call of request 2 settles in the end (it is
\* answered, or else it fails), and a call of request 1 may never return
SpecLive ==
  /\ InitSess
  /\ [][NextSess]_vars
  /\ WF_vars(GenerationReject(2))

-----------------------------------------------------------------------------
(* Properties *)

Done(r) == pc[r] = "done"
Answered(r) == pc[r] = "done" /\ resp[r].status = 200
Steps(r) == Range(ran[r])
MinOf(S) == CHOOSE h \in S : \A g \in S : h <= g

\* the courses whose title the message directly mentions, by position in the catalog
Mentioned(msg) == { i \in 1..Len(cursos) : isDirectTitleMentionC(msg, cursos[i].titulo) }
BlockedMentioned(msg) == { i \in Mentioned(msg) : cursos[i].estado \in {"en_curso", "finalizado"} }

\* the anchors of html whose href is the enrollment form of course c
FormLinks(html, c) ==
  { k \in 1..Len(html) : IsAnchor(html[k]) /\ IsFormUrlC(html[k].u) /\ html[k].u = c.formulario }

\* a turn answered by the deterministic router
Routed(r) == Answered(r) /\ "renderByIntent" \in Steps(r) /\ "llm" \notin Steps(r)
\* a turn answered with the text of the generation service
Generated(r) == Answered(r) /\ "llm" \in Steps(r)

\* C1: no answer of the server, deterministic or generated, carries a link to the
\* enrollment form of a course of the catalog whose estado is not inscripcion_abierta.
C1_NoFormLinkUnlessOpen ==
  \A r \in Reqs : Answered(r) =>
     \A i \in 1..Len(cursos) :
        cursos[i].estado # "inscripcion_abierta" => FormLinks(resp[r].message, cursos[i]) = {}

\* C2: a non-empty message that directly mentions a course en_curso or finalizado is
\* answered with exactly the refusal line of the first such course in catalog order,
\* whatever else the message contains.
C2_RefusalOfFirstBlocked ==
  \A r \in Reqs :
     (Done(r) /\ req[r].userMessage # "" /\ BlockedMentioned(req[r].userMessage) # {}) =>
        LET c == cursos[MinOf(BlockedMentioned(req[r].userMessage))]
        IN  /\ resp[r].status = 200
            /\ resp[r].message =
                 <<Txt("El curso "), Strong(c.titulo),
                   Txt(IF c.estado = "finalizado"
                       THEN " ya finaliz@, no pod$s inscribirte. M#s informaci@n "
                       ELSE " est# en cursada, no admite nuevas inscripciones. M#s informaci@n "),
                   Tok("a", "", "/curso/" \o encodeURIComponent(c.id) \o "?y=2025", "aqu%"),
                   Txt(".")>>

\* a refused message that mentions two blocked courses, or a blocked course and an enrollment keyword
C2_Witness ==
  \E r \in Reqs :
     /\ Done(r) /\ resp[r].status = 200
     /\ Cardinality(BlockedMentioned(req[r].userMessage)) >= 2
     /\ cursos[1].estado # cursos[2].estado

\* C3: in a turn whose message mentions a blocked course only the refusal check, the
\* history update and the response run; and in every turn the refusal check comes
\* before detectIntent, renderByIntent, the generation call and the post-filter.
C3_RefusalShortCircuits ==
  \A r \in Reqs :
     /\ (pc[r] # "idle" /\ req[r].userMessage # "" /\ BlockedMentioned(req[r].userMessage) # {})
          => (pc[r] = "done" /\ ran[r] = <<"duroTarget", "history", "respond">>)
     /\ \A j \in 1..Len(ran[r]) :
          ran[r][j] \in {"detectIntent", "renderByIntent", "llm", "sanitizeEnrollmentLinksByLine"}
            => \E i \in 1..(j - 1) : ran[r][i] = "duroTarget"

\* a refused message that also carries an enrollment keyword, about a course in progress
C3_Witness ==
  \E r \in Reqs :
     /\ Done(r) /\ ran[r] = <<"duroTarget", "history", "respond">>
     /\ hasEnrollKeyword(req[r].userMessage)
     /\ \E i \in BlockedMentioned(req[r].userMessage) : cursos[i].estado = "en_curso"

ListingIntents == {"inscripcion-general", "listado-disponibles", "por-localidad"}

\* C4: every entry of a listing (inscripcion-general, listado-disponibles, por-localidad)
\* is a course of the catalog whose estado is inscripcion_abierta or proximo.
C4_ListingsOnlyEligible ==
  \A r \in Reqs :
     (Routed(r) /\ detectIntent(req[r].userMessage).type \in ListingIntents) =>
        \A k \in 1..Len(resp[r].message) :
           LET tok == resp[r].message[k]
           IN  /\ tok.k = "strong" =>
                    /\ \E i \in 1..Len(cursos) : cursos[i].titulo = tok.s
                    /\ \A i \in 1..Len(cursos) : cursos[i].titulo = tok.s =>
                          cursos[i].estado \in {"inscripcion_abierta", "proximo"}
               /\ tok.k = "nav" =>
                    /\ \E i \in 1..Len(cursos) : cursos[i].id = tok.s
                    /\ \A i \in 1..Len(cursos) : cursos[i].id = tok.s =>
                          cursos[i].estado \in {"inscripcion_abierta", "proximo"}

\* a listing with an entry, from a catalog that also has a course that is not eligible
C4_Witness ==
  \E r \in Reqs :
     /\ Routed(r) /\ detectIntent(req[r].userMessage).type \in ListingIntents
     /\ \E k \in 1..Len(resp[r].message) : resp[r].message[k].k = "nav"
     /\ \E i \in 1..Len(cursos) : cursos[i].estado \notin {"inscripcion_abierta", "proximo"}

\* C5: the stored history of every session key has at most 6 entries and is the last 6
\* of all the entries ever appended for that key, after any sequence of turns.
C5_HistoryWindow ==
  \A k \in DOMAIN sessions :
     LET h == sessions[k].history
         a == appended[k]
     IN  /\ Len(h) <= 6
         /\ h = IF Len(a) <= 6 THEN a ELSE SubSeq(a, Len(a) - 5, Len(a))

\* a key for which more than 6 entries were appended, so the oldest were dropped
C5_Witness ==
  \E k \in DOMAIN sessions : Len(appended[k]) >= 8 /\ Len(sessions[k].history) = 6

PathEmpty == <<"respond">>
PathRefusal == <<"duroTarget", "history", "respond">>
PathRendered ==
  <<"duroTarget", "detectIntent", "renderByIntent", "sanitizeEnrollmentLinksByLine",
    "history", "lastSuggestedCourse", "respond">>
PathPending == <<"duroTarget", "detectIntent", "renderByIntent", "llm">>
PathGenerated ==
  PathPending \o <<"sanitizeEnrollmentLinksByLine", "history", "lastSuggestedCourse", "respond">>
PathFailed == PathPending \o <<"respond">>

\* C6: the text returned to the caller, the text stored in the history and the text
\* lastSuggestedCourse is taken from are the text of the generation service after
\* sanitizeEnrollmentLinksByLine, and the filter runs before the three of them.
C6_GeneratedTextIsFiltered ==
  \A r \in Reqs : Generated(r) =>
     LET out == sanitizeEnrollmentLinksByLine(formatAiResponse(req[r].content))
         st == sessions[req[r].sid]
         n == Len(st.history)
     IN  /\ resp[r].message = out
         /\ n >= 2
         /\ st.history[n] = [role |-> "assistant", content |-> clampHtml(out)]
         /\ turns = 1 => st.lastSuggestedCourse = nuevoSugerido(NoCourse, out)
         /\ ran[r] = PathGenerated

\* a generated answer that the filter changed
C6_Witness ==
  \E r \in Reqs : Generated(r) /\ resp[r].message # formatAiResponse(req[r].content)

Count(seq, x) == Cardinality({ i \in 1..Len(seq) : seq[i] = x })

\* C7 as stated: every request follows one of the three paths that end in REFUSAL or
\* RENDERED, sends one response and calls the generation service at most once, and
\* only when no refusal applied and renderByIntent returned null.
C7_SinglePath ==
  \A r \in Reqs : Done(r) =>
     /\ ran[r] \in {PathRefusal, PathRendered, PathGenerated}
     /\ Count(ran[r], "respond") = 1
     /\ Count(ran[r], "llm") <= 1
     /\ "llm" \in Steps(r) =>
          /\ BlockedMentioned(req[r].userMessage) = {}
          /\ renderByIntent(detectIntent(req[r].userMessage)) = Null

\* C7 amended: a request with an empty message is answered 400 before the refusal
\* check; every other request follows exactly one of: refusal; deterministic template;
\* generation, post-filter, answer; generation that fails, answer 500. Each sends
\* exactly one response and calls the generation service at most once, and only when
\* no refusal applied and renderByIntent returned null.
C7_SinglePathOrError ==
  \A r \in Reqs :
     LET m == req[r].userMessage IN
     /\ pc[r] = "idle" => ran[r] = <<>>
     /\ pc[r] = "awaiting" => ran[r] = PathPending /\ resp[r] = NoResp
     /\ Done(r) =>
          /\ (m = "") = (ran[r] = PathEmpty)
          /\ (ran[r] = PathEmpty) = (resp[r].status = 400)
          /\ m # "" => ran[r] \in {PathRefusal, PathRendered, PathGenerated, PathFailed}
          /\ (ran[r] = PathFailed) = (resp[r].status = 500)
          /\ m # "" => (ran[r] = PathRefusal) = (BlockedMentioned(m) # {})
          /\ (m # "" /\ BlockedMentioned(m) = {}) =>
                (ran[r] = PathRendered) = (renderByIntent(detectIntent(m)) # Null)
          /\ Count(ran[r], "respond") = 1
     /\ Count(ran[r], "llm") <= 1
     /\ "llm" \in Steps(r) =>
          /\ BlockedMentioned(m) = {}
          /\ renderByIntent(detectIntent(m)) = Null

\* a request answered with the text of the generation service, called once
C7_Witness ==
  \E r \in Reqs : Done(r) /\ ran[r] = PathGenerated /\ resp[r].status = 200

HasTitle(html, c) == \E k \in 1..Len(html) : html[k].k = "strong" /\ html[k].s = c.titulo

\* C8: a message with an enrollment keyword that directly mentions a course whose
\* estado is inscripcion_abierta and whose formulario is a form URL is answered with
\* an anchor to that formulario and the title of the course, for every catalog.
C8_OpenCourseGetsItsLink ==
  \A r \in Reqs :
     (Done(r) /\ hasEnrollKeyword(req[r].userMessage)) =>
        \A i \in Mentioned(req[r].userMessage) :
           (cursos[i].estado = "inscripcion_abierta" /\ IsFormUrlC(cursos[i].formulario)) =>
              /\ resp[r].status = 200
              /\ FormLinks(resp[r].message, cursos[i]) # {}
              /\ HasTitle(resp[r].message, cursos[i])

SaysNotOpen(html) ==
  \E k \in 1..Len(html) :
     /\ html[k].k = "txt"
     /\ \/ Includes(html[k].s, "la inscripci@n a^n no est# habilitada")
        \/ Includes(html[k].s, "Ahora no hay cursos con inscripci@n abierta")

\* C9: a message with an enrollment keyword that directly mentions a course whose
\* estado is proximo is answered without any anchor to a form URL and with the
\* statement that enrollment is not yet open, for every catalog.
C9_UpcomingCourseGetsNoLink ==
  \A r \in Reqs :
     (/\ Done(r) /\ hasEnrollKeyword(req[r].userMessage)
      /\ \E i \in Mentioned(req[r].userMessage) : cursos[i].estado = "proximo") =>
        /\ resp[r].status = 200
        /\ \A k \in 1..Len(resp[r].message) :
              ~(IsAnchor(resp[r].message[k]) /\ IsFormUrlC(resp[r].message[k].u))
        /\ SaysNotOpen(resp[r].message)

\* C10: detectIntent returns inscripcion-general only for a message with an enrollment
\* keyword and no directly mentioned course; with an enrollment keyword and a directly
\* mentioned course it returns formulario for that course.
C10_EnrollIntentByMention ==
  \A r \in Reqs : "detectIntent" \in Steps(r) =>
     LET m == req[r].userMessage
         it == detectIntent(m)
     IN  /\ it.type = "inscripcion-general" => (hasEnrollKeyword(m) /\ Mentioned(m) = {})
         /\ (hasEnrollKeyword(m) /\ Mentioned(m) # {}) =>
               (it.type = "formulario" /\ it.course = MinOf(Mentioned(m)))

\* the sub-intents in the order of the ladder, each with whether its keyword occurs in n
LadderTypes ==
  <<"formulario", "horarios", "requisitos", "materiales", "sede", "fecha_inicio",
    "fecha_fin", "duracion", "no-publicado">>
LadderHits(n) ==
  << hasAny(n, {"formulario", "link", "inscripcion", "inscribirme"}),
     hasAny(n, {"horari", "dias"}),
     Includes(n, "requisit"),
     Includes(n, "material"),
     hasAny(n, {"donde", "sede", "direccion"}),
     hasAny(n, {"empieza", "inicio"}),
     hasAny(n, {"termina", "finaliza"}) \/ IncludesThen(n, "fecha", "fin"),
     Includes(n, "duracion"),
     hasAny(n, {"precio", "costo", "cupos", "modalidad"}) >>
FirstLadder(n) ==
  LET hits == { j \in 1..Len(LadderTypes) : LadderHits(n)[j] }
  IN  IF hits = {} THEN "mas-info" ELSE LadderTypes[MinOf(hits)]

\* C11: detectIntent decides in the order generic enrollment, available courses,
\* "cursos en/de <locality>", direct title mention; with a mentioned course the intent
\* is the first sub-intent of the ladder whose keyword occurs, mas-info when none
\* occurs; desconocido exactly when the three rules fail and no course is mentioned.
C11_DecisionOrder ==
  \A r \in Reqs : "detectIntent" \in Steps(r) =>
     LET m == req[r].userMessage
         it == detectIntent(m)
         expected ==
           IF hasEnrollKeyword(m) THEN "inscripcion-general"
           ELSE IF hasListadoPhrase(m) THEN "listado-disponibles"
           ELSE IF hasLocalidad(m) THEN "por-localidad"
           ELSE IF Mentioned(m) # {} THEN FirstLadder(normalize(m))
           ELSE "desconocido"
     IN  /\ it.type = expected
         /\ it.type \in CourseIntents => it.course = MinOf(Mentioned(m))
         /\ (it.type = "desconocido") =
               (/\ ~hasEnrollKeyword(m) /\ ~hasListadoPhrase(m)
                /\ ~hasLocalidad(m) /\ Mentioned(m) = {})

\* a message with the keywords of two sub-intents and a mentioned course
C11_Witness ==
  \E r \in Reqs :
     /\ "detectIntent" \in Steps(r)
     /\ Mentioned(req[r].userMessage) # {}
     /\ Cardinality({ j \in 1..Len(LadderTypes) :
                        LadderHits(normalize(req[r].userMessage))[j] }) >= 2
     /\ detectIntent(req[r].userMessage).type = "formulario"

\* C12: after the load the estado of every course is one of inscripcion_abierta,
\* proximo, en_curso, finalizado (an absent or unrecognized value having become
\* proximo), so that every course that is not one of the other three is eligible.
C12_EstadoIsKnown ==
  \A i \in 1..Len(cursos) :
     /\ cursos[i].estado \in {"inscripcion_abierta", "proximo", "en_curso", "finalizado"}
     /\ cursos[i].estado \notin {"inscripcion_abierta", "en_curso", "finalizado"} =>
           isEligible(cursos[i])

\* the text renderByIntent returned in a turn the router answered, before the post-filter
RenderedOf(r) == renderByIntent(detectIntent(req[r].userMessage))

\* on one line, the anchor at k is the form of an open course that the line names
OffersOpenCourse(line, k) ==
  \E i \in 1..Len(cursos) :
     /\ cursos[i].estado = "inscripcion_abierta"
     /\ line[k].u = cursos[i].formulario
     /\ \E j \in 1..Len(line) :
           \/ line[j].k = "strong" /\ line[j].s = cursos[i].titulo
           \/ line[j].k = "nav" /\ line[j].s = cursos[i].id

\* C13: in the text of renderByIntent before the post-filter every anchor is an
\* Inscribirte anchor to the form of a course inscripcion_abierta named on the same
\* line, so a course proximo gets no anchor; the refusal line of a course en_curso or
\* finalizado has one anchor, the reference link /curso/{id}?y=2025, and no Inscribirte.
C13_CallToActionOnlyOpen ==
  \A r \in Reqs :
     /\ Routed(r) =>
          LET lines == splitBr(RenderedOf(r))
          IN  \A n \in 1..Len(lines) : \A k \in 1..Len(lines[n]) :
                 IsAnchor(lines[n][k]) =>
                    /\ lines[n][k].t = "Inscribirte"
                    /\ OffersOpenCourse(lines[n], k)
     /\ (Done(r) /\ ran[r] = PathRefusal) =>
          LET as == { k \in 1..Len(resp[r].message) : IsAnchor(resp[r].message[k]) }
          IN  /\ Cardinality(as) = 1
              /\ \A k \in as : /\ resp[r].message[k].t # "Inscribirte"
                               /\ StartsWith(resp[r].message[k].u, "/curso/")

\* a text of the router about a course proximo, from a catalog that also has an open course
C13_Witness ==
  \E r \in Reqs :
     /\ Routed(r)
     /\ \E k \in 1..Len(RenderedOf(r)) : IsAnchor(RenderedOf(r)[k])
     /\ \E i \in 1..Len(cursos) :
           /\ cursos[i].estado = "proximo"
           /\ \E k \in 1..Len(RenderedOf(r)) :
                 RenderedOf(r)[k].k = "strong" /\ RenderedOf(r)[k].s = cursos[i].titulo

\* the lines of a listing that are entries: they start with the bullet
EntryLines(html) ==
  LET lines == splitBr(html)
  IN  { n \in 1..Len(lines) : Len(lines[n]) > 0 /\ lines[n][1] = Txt("* ") }

\* C14: every listing of renderByIntent (inscripcion-general, listado-disponibles,
\* por-localidad) has at most 5 entries, and each entry shows the title of a course,
\* its human lifecycle label and navigateToCourse:{id}.
C14_ListingAtMostFive ==
  \A r \in Reqs :
     (Routed(r) /\ detectIntent(req[r].userMessage).type \in ListingIntents) =>
        LET lines == splitBr(RenderedOf(r))
        IN  /\ Cardinality(EntryLines(RenderedOf(r))) <= 5
            /\ \A n \in EntryLines(RenderedOf(r)) :
                  \E i \in 1..Len(cursos) :
                     /\ \E k \in 1..Len(lines[n]) : lines[n][k] = Strong(cursos[i].titulo)
                     /\ \E k \in 1..Len(lines[n]) : lines[n][k] = Txt(estadoLegible(cursos[i]))
                     /\ \E k \in 1..Len(lines[n]) : lines[n][k] = Nav(cursos[i].id)

\* the request that a step handles: the one it receives, or the one it resumes
Receives(r) ==
  /\ turns' = turns + 1
  /\ pc[r] # "awaiting"
  /\ \A q \in Reqs : q < r => pc[q] = "awaiting"
Resumes(r) == pc[r] = "awaiting" /\ pc'[r] = "done"
Acts(r) == Receives(r) \/ Resumes(r)

\* lastSuggestedCourse of key k in the store ss; null is NoCourse
LscOf(ss, k) == IF k \in DOMAIN ss THEN ss[k].lastSuggestedCourse ELSE NoCourse

PairOf(c) == [titulo |-> c.titulo, formulario |-> c.formulario]

C15_Inv ==
  \A k \in DOMAIN sessions :
     \/ sessions[k].lastSuggestedCourse = NoCourse
     \/ \E i \in 1..Len(cursos) :
           /\ cursos[i].estado = "inscripcion_abierta"
           /\ sessions[k].lastSuggestedCourse = PairOf(cursos[i])

C15_Step ==
  \A k \in Keys :
     /\ LscOf(sessions', k) # LscOf(sessions, k) =>
          \E r \in Reqs :
             /\ Acts(r) /\ req'[r].sid = k
             /\ pc'[r] = "done" /\ resp'[r].status = 200
             /\ \E i \in 1..Len(cursos) :
                   /\ cursos[i].estado = "inscripcion_abierta"
                   /\ LscOf(sessions', k) = PairOf(cursos[i])
                   /\ FormLinks(resp'[r].message, cursos[i]) # {}
     /\ \A r \in Reqs :
          (Acts(r) /\ req'[r].sid = k /\ ran'[r] \in {PathEmpty, PathRefusal, PathFailed}) =>
             LscOf(sessions', k) = LscOf(sessions, k)

\* C15: lastSuggestedCourse of a session is null or the (titulo, formulario) of a
\* catalog course inscripcion_abierta; it changes only in a turn answered 200 whose
\* response has an anchor to the formulario of that course; refusal, empty and failed
\* turns leave it as it was; it never goes back to null.
C15_LastSuggestedCourse == []C15_Inv /\ [][C15_Step]_vars

C16_Inv ==
  \A r \in Reqs :
     (Done(r) /\ req[r].userMessage = "") =>
        /\ resp[r] = [status |-> 400, message |-> <<>>, error |-> "Mensaje vac%o"]
        /\ "llm" \notin Steps(r)

C16_Step ==
  \A r \in Reqs :
     (Receives(r) /\ req'[r].userMessage = "") =>
        /\ sessions' = sessions
        /\ appended' = appended
        /\ pc'[r] = "done"
        /\ resp'[r].status = 400

\* C16: a request whose message is absent, empty or only white space is answered 400
\* with the error 'Mensaje vacio', calls the generation service never, and leaves the
\* session store as it was: no session is created for its key, no history is appended.
C16_EmptyMessage == []C16_Inv /\ [][C16_Step]_vars

\* an empty message answered 400 for a key that has no session
C16_Witness ==
  \E r \in Reqs :
     /\ Done(r) /\ resp[r].status = 400 /\ req[r].userMessage = ""
     /\ req[r].sid \notin DOMAIN sessions

\* the generation call of r was made and its answer never reached the post-filter
GenerationFailed(r) ==
  /\ Done(r)
  /\ "llm" \in Steps(r)
  /\ "sanitizeEnrollmentLinksByLine" \notin Steps(r)

C17_Inv ==
  \A r \in Reqs :
     /\ GenerationFailed(r) =>
           resp[r] = [status |-> 500, message |-> <<>>, error |-> "Error al generar respuesta"]
     /\ (Done(r) /\ resp[r].status = 500) =>
           /\ ran[r] = PathFailed
           /\ Count(ran[r], "llm") = 1

C17_Step ==
  \A r \in Reqs :
     (Resumes(r) /\ resp'[r].status = 500) =>
        /\ sessions' = sessions
        /\ appended' = appended
        /\ \A q \in Reqs : pc'[q] = "awaiting" => pc[q] = "awaiting"

\* C17: a failed generation call is answered 500 with exactly the body
\* {error: 'Error al generar respuesta'} and nothing of the underlying error, the call
\* is made once and not again, and no other path answers 500.
C17_GenerationFailure == []C17_Inv /\ [][C17_Step]_vars

\* a request whose generation call failed and was answered 500
C17_Witness ==
  \E r \in Reqs : GenerationFailed(r) /\ resp[r].status = 500 /\ ran[r] = PathFailed

\* the step resumes r with 200 after another request of the same key wrote to the
\* history while r was suspended, and the window of 6 is not exceeded by the write of r
ResumesOverlapped(r) ==
  /\ Resumes(r)
  /\ resp'[r].status = 200
  /\ Len(sessions[req[r].sid].history) > Len(req[r].historial) - 1
  /\ Len(sessions[req[r].sid].history) + 2 <= HistoryMax

IsPrefix(s, t) == Len(s) <= Len(t) /\ SubSeq(t, 1, Len(s)) = s

C18_Step ==
  \A r \in Reqs :
     ResumesOverlapped(r) =>
        sessions'[req[r].sid].history =
           sessions[req[r].sid].history \o entriesOf(req[r].userMessage, resp'[r].message)

\* C18 (amended): two overlapping requests of one session key lose no history: the
\* request that resumes appends its user/assistant pair after the entries the other
\* request wrote while it was suspended, and, within the 6-entry window, every one of
\* those entries is still in the history after its write.
C18_OverlapKeepsHistory == [][C18_Step]_vars

C18_Lost ==
  \A r \in Reqs :
     ResumesOverlapped(r) =>
        ~IsPrefix(sessions[req[r].sid].history, sessions'[req[r].sid].history)

\* C18 as stated, read on every overlap: the write of the request that resumes
\* overwrites the history (last write wins), so that entries another request of the
\* key appended while it was suspended are no longer in the history.
C18_LastWriteWins == [][C18_Lost]_vars

\* two generated turns of one key that both started from the empty history, so they
\* overlapped, both answered 200, and the history holds the four entries
C18_Witness ==
  /\ Generated(1) /\ Generated(2)
  /\ req[1].sid = req[2].sid
  /\ Len(req[1].historial) = 1 /\ Len(req[2].historial) = 1
  /\ Len(sessions[req[1].sid].history) = 4
  /\ \E a, b \in {1, 2} :
        /\ a # b
        /\ sessions[req[1].sid].history =
              entriesOf(req[a].userMessage, resp[a].message) \o
              entriesOf(req[b].userMessage, resp[b].message)

\* user, assistant, user, assistant, ...
Alternates(h) ==
  /\ Len(h) % 2 = 0
  /\ \A i \in 1..Len(h) : h[i].role = IF i % 2 = 1 THEN "user" ELSE "assistant"

C19_Inv ==
  \A k \in DOMAIN sessions : Alternates(sessions[k].history) /\ Alternates(appended[k])

\* the step in which r is answered with 200
Answers(r) == Acts(r) /\ pc'[r] = "done" /\ resp'[r].status = 200

C19_Step ==
  /\ \A r \in Reqs :
        Answers(r) =>
           LET k == req'[r].sid
               par == <<Entry("user", <<Txt(clampStr(sanitizeC(req'[r].userMessage)))>>),
                        Entry("assistant", clampHtml(resp'[r].message))>>
           IN  /\ sessions'[k].history = LastN(stateOf(k).history \o par, HistoryMax)
               /\ appended'[k] = appended[k] \o par
  /\ \A k \in DOMAIN sessions' :
        sessions'[k].history # stateOf(k).history =>
           \E r \in Reqs : Answers(r) /\ req'[r].sid = k

\* C19: every turn answered with 200 appends to the history of its key one user entry
\* immediately followed by one assistant entry, in the step that answers it, and no
\* other step changes a history; so every history has even length and alternates
\* user/assistant, serialized turns appear in request order, and the pairs of
\* overlapping turns are never interleaved.
C19_AppendOncePerTurn == []C19_Inv /\ [][C19_Step]_vars

\* a routed turn arrived while a generated turn of the same key was suspended; the
\* history holds the pair of the routed turn and then the pair of the generated one
C19_Witness ==
  /\ Generated(1) /\ Routed(2)
  /\ req[1].sid = req[2].sid
  /\ Len(req[1].historial) = 1
  /\ sessions[req[1].sid].history =
        entriesOf(req[2].userMessage, resp[2].message) \o
        entriesOf(req[1].userMessage, resp[1].message)

C20_Step ==
  /\ cursos' = cursos
  /\ \A r \in Reqs :
        Acts(r) =>
           \A k \in Keys \ {req'[r].sid} :
              /\ k \in DOMAIN sessions' <=> k \in DOMAIN sessions
              /\ k \in DOMAIN sessions => sessions'[k] = sessions[k]
              /\ appended'[k] = appended[k]
  /\ (\A r \in Reqs : ~Acts(r)) => (sessions' = sessions /\ appended' = appended)

\* C20: in every interleaving, the step that handles a request of session key A leaves
\* the history and lastSuggestedCourse of every other key as they were, creates and
\* removes no other key, and leaves the catalog unchanged; the entry of A in the
\* session store is the only state a request writes.
C20_SessionIsolation == [][C20_Step]_vars

\* both keys have a session, each with its own turns in its history
C20_Witness ==
  /\ DOMAIN sessions = Keys
  /\ \A k \in Keys : Len(sessions[k].history) >= 2
  /\ \E r \in Reqs : Answered(r) /\ req[r].sid = "A"
  /\ \E r \in Reqs : Answered(r) /\ req[r].sid = "B"
  /\ sessions["A"].history # sessions["B"].history

\* slot q is the one the next request takes
NextSlot(q) ==
  /\ pc[q] # "awaiting"
  /\ turns < MaxTurnsSess
  /\ \A p \in Reqs : p < q => pc[p] = "awaiting"

C21_Inv ==
  \A r \in Reqs : pc[r] = "awaiting" =>
     \A q \in Reqs \ {r} :
        /\ NextSlot(q) =>
              \A k \in Keys \ {req[r].sid} : ENABLED ReceiveEmpty(q, k, "", MaxTurnsSess)
        /\ pc[q] = "awaiting" => ENABLED GenerationReject(q)

\* the path a request with this message takes when nothing else is in flight
PathOf(raw) ==
  IF trim(raw) = "" THEN PathEmpty
  ELSE IF duroTarget(trim(raw)) # 0 THEN PathRefusal
  ELSE IF renderByIntent(detectIntent(trim(raw))) # Null THEN PathRendered
  ELSE PathPending

C21_Step ==
  \A r \in Reqs : pc[r] = "awaiting" =>
     \A q \in Reqs \ {r} :
        /\ Receives(q) =>
              /\ \E m \in SessMessages : trim(m) = req'[q].userMessage /\ ran'[q] = PathOf(m)
              /\ pc'[q] = IF ran'[q] = PathPending THEN "awaiting" ELSE "done"
              /\ pc'[r] = "awaiting"
        /\ Resumes(q) => pc'[r] = "awaiting"

\* C21: while a request of a session is suspended on the generation service, a request
\* of any other session is received and handled on the path its message selects, and
\* its own generation call returns and is answered, all without the first call
\* returning; a call of the first request that never returns does not keep the second
\* request from completing.
C21_NonBlockingCall ==
  /\ []C21_Inv
  /\ [][C21_Step]_vars
  /\ (pc[2] = "awaiting" ~> pc[2] = "done")

\* request 2, of another session, made its own generation call and was answered while
\* the call of request 1 is still pending
C21_Witness ==
  /\ pc[1] = "awaiting"
  /\ Generated(2)
  /\ req[2].sid # req[1].sid

\* every locality a course of the model may list
Localidades == UNION { Range(LocalidadesOf[i]) : i \in 1..Len(LocalidadesOf) }

\* a 'cursos en <loc>' request answered by the template, with no eligible course in <loc>
UnknownLocality(r) ==
  /\ Routed(r)
  /\ detectIntent(req[r].userMessage).type = "por-localidad"
  /\ cursosPorLocalidadElegibles(detectIntent(req[r].userMessage).loc) = <<>>

FuentesMalas == { f \in Fuentes : f.kind # "array" }

\* C23: when cursos_2025.json is missing, is not valid JSON or its root is not an array,
\* the server starts with cursos = [] and cursosElegibles = []; and with the empty
\* catalog every request with a non-empty message gets exactly one response, none is a
\* refusal, and no template answer has a listing entry or names a course.
C23_CatalogLoadError ==
  /\ \A f \in FuentesMalas : cargarCursos(f) = <<>>
  /\ cursos = <<>> =>
        /\ cursosElegibles = <<>>
        /\ \A r \in Reqs : (Done(r) /\ req[r].userMessage # "") =>
              /\ Count(ran[r], "respond") = 1
              /\ resp[r].status \in {200, 500}
              /\ ran[r] # PathRefusal
              /\ Routed(r) =>
                    /\ EntryLines(resp[r].message) = {}
                    /\ \A k \in 1..Len(resp[r].message) :
                          resp[r].message[k].k \notin {"strong", "nav", "a"}

\* the server started from a source that could not be loaded and answered a request
\* for a listing from its template
C23_Witness ==
  /\ cursos \in { cargarCursos(f) : f \in FuentesMalas }
  /\ \E r \in Reqs :
        /\ Routed(r)
        /\ detectIntent(req[r].userMessage).type \in ListingIntents

\* strings jaccard is evaluated on: empty, blank, punctuation only, titles, messages
JaccardPool ==
  { "", "  ", "???", "Curso de Costura", "curso de costura", "costura curso", "CURSO, de costura!",
    "info de costura", "Gastronom%a", "Auxiliar de Gastronom%a", "de de de", "hola <3" }

JaccardTable == [a \in JaccardPool, b \in JaccardPool |-> jaccard(a, b)]

\* s is a number between 0 and 1
IsRatio01(s) == s.d > 0 /\ 0 <= s.n /\ s.n <= s.d

C24_Bounds ==
  /\ \A a, b \in JaccardPool :
        /\ IsRatio01(JaccardTable[a, b])
        /\ (normalize(a) = "" \/ normalize(b) = "") => JaccardTable[a, b].n = 0
  /\ \A r \in Reqs : \A i \in 1..Len(req[r].candidates) : IsRatio01(req[r].candidates[i].score)

\* C24 (amended): jaccard(a,b) is between 0 and 1 for all strings, it is 0 whenever a or
\* b normalizes to the empty string, and jaccard(a,a) = 1 for every a whose normalization
\* is not empty.
C24_SimilarityBoundsNormalized ==
  /\ C24_Bounds
  /\ \A a \in JaccardPool :
        normalize(a) # "" => JaccardTable[a, a].n = JaccardTable[a, a].d

\* C24 as stated: jaccard(a,b) is between 0 and 1, jaccard(a,a) = 1 for every nonempty
\* string a, and jaccard(a,b) = 0 whenever a or b normalizes to the empty string.
C24_SimilarityBounds ==
  /\ C24_Bounds
  /\ \A a \in JaccardPool :
        a # "" => JaccardTable[a, a].n = JaccardTable[a, a].d

\* a request sent to the generation service with a candidate whose score is strictly
\* between 0 and 1, and a nonempty string that normalizes to the empty string
C24_Witness ==
  /\ \E r \in Reqs : \E i \in 1..Len(req[r].candidates) :
        /\ pc[r] = "awaiting"
        /\ 0 < req[r].candidates[i].score.n
        /\ req[r].candidates[i].score.n < req[r].candidates[i].score.d
  /\ \E a \in JaccardPool : a # "" /\ normalize(a) = "" /\ JaccardTable[a, a].n = 0

\* queries, titles, and the texts put before and after a query
MentionQueries == { "curso de costura", "info del Curso de Costura!", "A+", "gastronom%a" }
MentionTitles == { "Curso de Costura", "Gastronom%a", "A+" }
Affixes == { "", "x", " y ", "sobre ", "?", "A" }

\* isDirectTitleMention(q, t) is true because normalize(q) contains normalize(t)
MentionBySubstring(q, t) ==
  normalize(q) # "" /\ normalize(t) # "" /\ Includes(normalize(q), normalize(t))

\* C25: if isDirectTitleMention(q,t) is true because normalize(q) contains normalize(t),
\* then isDirectTitleMention(q',t) is true for every q' that contains q as a substring:
\* any text before and after q, glued to its first or last word or not.
C25_DirectMentionMonotone ==
  /\ \A q \in MentionQueries, t \in MentionTitles, x \in Affixes, y \in Affixes :
        MentionBySubstring(q, t) => isDirectTitleMention(x \o q \o y, t)
  /\ \A r \in Reqs : \A i \in 1..Len(cursos) :
        ("duroTarget" \in Steps(r) /\ MentionBySubstring(req[r].userMessage, cursos[i].titulo)) =>
           \A m \in TrimmedMessages :
              Includes(m, req[r].userMessage) => isDirectTitleMentionC(m, cursos[i].titulo)

\* texts with upper case, accents, punctuation, runs of white space, the capital sigma
NormalizeTexts ==
  { "", "   ", "Curso  de   Costura", "GASTRONOM%A!!", "a--b", " ?Qu$ tal? ", "x < y",
    "A+", "A+A", "a!", "!a", "Jardiner%a, Panader%a y  Apicultura." }

JsValue(t, str, callable) == [t |-> t, s |-> str, callable |-> callable]

\* strings, null, undefined, numbers, booleans, an array, a plain object
ValoresConToString ==
  { JsValue("string", x, TRUE) : x \in NormalizeTexts }
  \cup { JsValue("null", "", FALSE), JsValue("undefined", "", FALSE),
         JsValue("number", "0", TRUE), JsValue("number", "NaN", TRUE), JsValue("number", "42", TRUE),
         JsValue("boolean", "false", TRUE), JsValue("boolean", "true", TRUE),
         JsValue("array", "Tilcara,Palpal#", TRUE), JsValue("object", "[object Object]", TRUE) }

\* objects whose toString is not a function: {"toString": 1} from JSON, Object.create(null)
ValoresSinToString == { JsValue("object", "", FALSE) }

\* normalize returns a string on v, and normalizing that string again returns it
TotalIdempotent(v) ==
  /\ normalizeValor(v).ok
  /\ normalize(normalizeValor(v).s) = normalizeValor(v).s

\* normalize maps the message of every request received to a fixed point of normalize
C26_OnMessages ==
  \A r \in Reqs : normalizeC(normalizeC(req[r].userMessage)) = normalizeC(req[r].userMessage)

\* C26 (amended): for every input that is a string, null, undefined, or a value whose
\* toString method returns a string (numbers, booleans, arrays, plain objects),
\* normalize(s) returns a string and normalize(normalize(s)) = normalize(s).
C26_NormalizeIdempotent ==
  /\ \A v \in ValoresConToString : TotalIdempotent(v)
  /\ C26_OnMessages

\* C26 as stated: for every input s (null, non-strings, upper case, accents, punctuation,
\* runs of white space), normalize(s) returns a string and normalize(normalize(s)) = normalize(s).
C26_NormalizeTotalIdempotent ==
  /\ \A v \in ValoresConToString \cup ValoresSinToString : TotalIdempotent(v)
  /\ C26_OnMessages

\* a request was received whose message normalize changes, and the pool has a text
\* whose punctuation becomes a space at its end
C26_Witness ==
  /\ \E r \in Reqs :
        /\ "duroTarget" \in Steps(r)
        /\ normalizeC(req[r].userMessage) # req[r].userMessage
  /\ \E v \in ValoresConToString : v.t = "string" /\ normalizeValor(v).s # v.s /\ v.s # ""

\* the text html carries the title or the id of course c
Carries(html, c) ==
  \E k \in 1..Len(html) :
     \/ html[k].k \in {"strong", "txt", "mdbold"} /\ Includes(html[k].s, c.titulo)
     \/ html[k].k = "nav" /\ html[k].s = c.id
     \/ IsAnchor(html[k]) /\ html[k].u = "/curso/" \o encodeURIComponent(c.id) \o "?y=2025"

\* C27: in every request sent to the generation service, after any sequence of earlier
\* turns of the session, no message (catalog context, title-match hint, replayed
\* history, current user message) carries the title or the id of a course whose estado
\* is en_curso or finalizado.
C27_ServiceSeesOnlyEligible ==
  \A r \in Reqs : "llm" \in Steps(r) =>
     \A i \in 1..Len(cursos) : cursos[i].estado \in {EnCurso, Finalizado} =>
        /\ \A k \in 1..Len(contextoCursos) :
              contextoCursos[k].titulo # cursos[i].titulo /\ contextoCursos[k].id # cursos[i].id
        /\ \A k \in 1..Len(req[r].candidates) :
              /\ req[r].candidates[k].titulo # cursos[i].titulo
              /\ req[r].candidates[k].id # cursos[i].id
        /\ \A k \in 1..Len(req[r].historial) : ~Carries(req[r].historial[k].content, cursos[i])

\* the open courses, as renderByIntent selects them for inscripcion-general
Abiertas == SelectSeq(cursosElegibles, LAMBDA c : c.estado = Abierta)

\* the template of r offers the form of an open course on a line of its own: the answer
\* to a formulario request, or to inscripcion-general when one course is open
LegitimateOffer(r) ==
  /\ Routed(r)
  /\ LET it == detectIntent(req[r].userMessage)
     IN  \/ /\ it.type = "formulario"
            /\ cursos[it.course].estado = Abierta
            /\ IsFormUrlC(cursos[it.course].formulario)
         \/ /\ it.type = "inscripcion-general"
            /\ Len(Abiertas) = 1
            /\ IsFormUrlC(Abiertas[1].formulario)

\* C28: for a course in inscripcion_abierta with a form-hosting formulario, the response
\* released to a formulario request, or to inscripcion-general with a single open course,
\* is the text renderByIntent produced, unchanged by sanitizeEnrollmentLinksByLine, and
\* does not say 'la inscripcion aun no esta habilitada'.
C28_FilterKeepsLegitimateOffer ==
  \A r \in Reqs : LegitimateOffer(r) =>
     /\ resp[r].message = RenderedOf(r)
     /\ \A k \in 1..Len(resp[r].message) :
           ~(resp[r].message[k].k = "txt"
             /\ Includes(resp[r].message[k].s, "la inscripci@n a^n no est# habilitada"))

C29_Step ==
  \A r \in Reqs :
     \* the request is received and sent to the generation service
     /\ (Receives(r) /\ pc'[r] = "awaiting") =>
           /\ sessions'[req'[r].sid] = stateOf(req'[r].sid)
           /\ \A k \in DOMAIN sessions : sessions'[k] = sessions[k]
           /\ DOMAIN sessions' = DOMAIN sessions \cup {req'[r].sid}
           /\ appended' = appended
           /\ req'[r].historial =
                 historialDe(LastN(stateOf(req'[r].sid).history, HistoryMax))
                 \o <<Entry("user", <<Txt(clampStr(sanitizeC(req'[r].userMessage)))>>)>>
     \* its call fails
     /\ (Resumes(r) /\ resp'[r].status = 500) =>
           /\ \A k \in DOMAIN sessions :
                 /\ sessions'[k].history = sessions[k].history
                 /\ sessions'[k].lastSuggestedCourse = sessions[k].lastSuggestedCourse
           /\ DOMAIN sessions' = DOMAIN sessions

\* C29: a turn whose generation call fails (500) leaves the history and
\* lastSuggestedCourse of its session as they were: receiving it writes nothing but an
\* entry with empty history for a key not seen before, failing writes nothing, and what
\* a later turn replays is the stored history, which has no entry of the failed turn.
C29_FailureLeavesState == [][C29_Step]_vars

\* a failed turn of a key not seen before: the key has an entry with empty history
C29_Witness ==
  \E r \in Reqs :
     /\ Done(r) /\ resp[r].status = 500
     /\ req[r].sid \in DOMAIN sessions
     /\ sessions[req[r].sid].history = <<>>
     /\ sessions[req[r].sid].lastSuggestedCourse = NoCourse
     /\ appended[req[r].sid] = <<>>

\* queries with a title glued inside a longer word, and queries with the title as words
WordQueries == { "gastronomia2025", "agastronomiab", "info de gastronomia", "costura curso" }
WordTitles == { "Gastronom%a", "Curso de Costura" }

\* the normalized texts have a whole whitespace-delimited token in common
SharesWord(q, t) == tokenSet(normalize(q)) \cap tokenSet(normalize(t)) # {}

\* C30: isDirectTitleMention(query, title) is false whenever the normalized query and
\* the normalized title have no whole token in common, so a course en_curso or
\* finalizado is refused only for a message that has a complete word of its title.
C30_DirectMentionSharesWord ==
  /\ \A q \in WordQueries, t \in WordTitles :
        isDirectTitleMention(q, t) => SharesWord(q, t)
  /\ \A r \in Reqs :
        (Done(r) /\ ran[r] = PathRefusal) =>
           SharesWord(req[r].userMessage,
                      cursos[MinOf(BlockedMentioned(req[r].userMessage))].titulo)

=============================================================================
